---- MODULE Spec2Model ----
(***************************************************************************)
(* A model of function-external-name-backup-restore: the RunFunction       *)
(* handler of fn.go (gate, purge, load, retire, restore, capture, save,    *)
(* stamp, merge) over the ResourceStore of store.go / mock_store.go.       *)
(*                                                                         *)
(* Strings of the program are strings here; "" is the empty / absent       *)
(* string, as getAnnotationValue returns "" for an annotation that is not  *)
(* there.  Go maps are functions whose DOMAIN is the set of present keys.  *)
(***************************************************************************)
EXTENDS Integers, FiniteSets, Sequences, TLC

\* ---------------------------------------------------------------- constants of fn.go
ExternalNameAnnotation == "crossplane.io/external-name"
StoredExternalNameAnnotation == "fn.crossplane.io/stored-external-name"
ExternalNameStoredAnnotation == "fn.crossplane.io/external-name-stored"
ExternalNameDeletedAnnotation == "fn.crossplane.io/external-name-deleted"
ExternalNameRestoredAnnotation == "fn.crossplane.io/external-name-restored"
StoredResourceNameAnnotation == "fn.crossplane.io/stored-resource-name"
ResourceNameStoredAnnotation == "fn.crossplane.io/resource-name-stored"
ResourceNameRestoredAnnotation == "fn.crossplane.io/resource-name-restored"
EnableExternalStoreAnnotation == "fn.crossplane.io/enable-external-store"
PurgeExternalStoreAnnotation == "fn.crossplane.io/purge-external-store"
ClusterIDAnnotation == "fn.crossplane.io/cluster-id"
StoreTypeAnnotation == "fn.crossplane.io/store-type"
BackupScopeAnnotation == "fn.crossplane.io/backup-scope"
OverrideKindAnnotation == "fn.crossplane.io/override-kind"
OverrideNamespaceAnnotation == "fn.crossplane.io/override-namespace"
RequireRestoreAnnotation == "fn.crossplane.io/restore-only"
BackupScopeOrphaned == "orphaned"
BackupScopeAll == "all"
DeletionPolicyDelete == "Delete"
DeletionPolicyOrphan == "Orphan"

\* The annotation keys a composed resource can carry in this model.
AnnotationKeys ==
  { ExternalNameAnnotation, StoredExternalNameAnnotation, ExternalNameStoredAnnotation,
    ExternalNameDeletedAnnotation, ExternalNameRestoredAnnotation,
    StoredResourceNameAnnotation, ResourceNameStoredAnnotation,
    ResourceNameRestoredAnnotation }

\* The annotation keys of the composite (XR) that RunFunction reads.
XRAnnotationKeys ==
  { EnableExternalStoreAnnotation, PurgeExternalStoreAnnotation, ClusterIDAnnotation,
    StoreTypeAnnotation, BackupScopeAnnotation, OverrideKindAnnotation,
    OverrideNamespaceAnnotation, RequireRestoreAnnotation }

\* ---------------------------------------------------------------- bounds of the model
\* Number of distinct identity values (external names, resource names) in play.
NumNames == 2
NameOf == <<"x", "y", "z", "w">>
Names == { NameOf[i] : i \in 1..NumNames }
\* The pipeline resource names (ResourceKeys) of the composition.
ResourceKeys == {"bucket", "db"}
\* A timestamp written by an earlier invocation, and the one time.Now() gives now.
OldTimestamp == "t0"
NowTimestamp == "t1"
\* Which store call returns an error in an invocation (at most one kind).
Faults == {"none", "load", "delete", "purge", "save"}

\* ---------------------------------------------------------------- maps
EmptyMap == [k \in {} |-> ""]
MapSet(f, k, v) == [x \in (DOMAIN f) \cup {k} |-> IF x = k THEN v ELSE f[x]]
MapDel(f, k) == [x \in (DOMAIN f) \ {k} |-> f[x]]
MapDelAll(f, ks) == [x \in (DOMAIN f) \ ks |-> f[x]]

\* ---------------------------------------------------------------- store.go
\* ResourceData: the two strings kept per composed resource.
ResourceData(ext, res) == [ExternalName |-> ext, ResourceName |-> res]

\* mock_store.go.  data is the map clusterID -> compositionKey -> resourceKey -> ResourceData.
StoreSave(data, clusterID, compositionKey, resources) ==
  LET clusterData == IF clusterID \in DOMAIN data THEN data[clusterID] ELSE EmptyMap
  IN  MapSet(data, clusterID, MapSet(clusterData, compositionKey, resources))

StoreLoad(data, clusterID, compositionKey) ==
  IF clusterID \in DOMAIN data /\ compositionKey \in DOMAIN data[clusterID]
    THEN data[clusterID][compositionKey]
    ELSE EmptyMap

StoreDeleteResource(data, clusterID, compositionKey, resourceKey) ==
  IF clusterID \in DOMAIN data /\ compositionKey \in DOMAIN data[clusterID]
    THEN MapSet(data, clusterID,
           MapSet(data[clusterID], compositionKey,
             MapDel(data[clusterID][compositionKey], resourceKey)))
    ELSE data

StorePurge(data, clusterID, compositionKey) ==
  IF clusterID \in DOMAIN data
    THEN MapSet(data, clusterID, MapDel(data[clusterID], compositionKey))
    ELSE data

RECURSIVE StoreDeleteResources(_, _, _, _)
\* The DeleteResource calls of the retire loop, one per retiring resource.
StoreDeleteResources(data, clusterID, compositionKey, keys) ==
  IF keys = {} THEN data
  ELSE LET k == CHOOSE x \in keys : TRUE
       IN  StoreDeleteResources(StoreDeleteResource(data, clusterID, compositionKey, k),
                                clusterID, compositionKey, keys \ {k})

\* ---------------------------------------------------------------- ConfigMapStore
\* What the API server holds of the store's namespace: the ConfigMaps by name,
\* each with its data and its resourceVersion, and the last version issued.
ConfigMap(Data, resourceVersion) == [Data |-> Data, resourceVersion |-> resourceVersion]
NoConfigMaps == [objects |-> EmptyMap, version |-> 0]

\* ConfigMaps(namespace).Get: the object as stored, or NotFound.
ConfigMapsGet(api, name) ==
  IF name \in DOMAIN api.objects
    THEN [found |-> TRUE, configMap |-> api.objects[name]]
    ELSE [found |-> FALSE, configMap |-> ConfigMap(EmptyMap, 0)]

\* ConfigMaps(namespace).Create: AlreadyExists when the name is taken.
ConfigMapsCreate(api, name, Data) ==
  IF name \in DOMAIN api.objects
    THEN [api |-> api, err |-> TRUE]
    ELSE [api |-> [objects |-> MapSet(api.objects, name, ConfigMap(Data, api.version + 1)),
                   version |-> api.version + 1],
          err |-> FALSE]

\* ConfigMaps(namespace).Update: NotFound when the object is gone, Conflict when
\* the resourceVersion sent is not the stored one.
ConfigMapsUpdate(api, name, configMap) ==
  IF name \notin DOMAIN api.objects
     \/ api.objects[name].resourceVersion # configMap.resourceVersion
    THEN [api |-> api, err |-> TRUE]
    ELSE [api |-> [objects |-> MapSet(api.objects, name,
                                      ConfigMap(configMap.Data, api.version + 1)),
                   version |-> api.version + 1],
          err |-> FALSE]

\* ConfigMaps(namespace).Delete with empty DeleteOptions: NotFound when the
\* object is gone, no precondition on its version.
ConfigMapsDelete(api, name) ==
  IF name \notin DOMAIN api.objects
    THEN [api |-> api, err |-> TRUE]
    ELSE [api |-> [api EXCEPT !.objects = MapDel(@, name)], err |-> FALSE]

getConfigMapName(clusterID) == <<"external-name-backup", clusterID>>

encodeKey(compositionKey) == <<"base64", compositionKey>>

\* json.Marshal and json.Unmarshal of map[string]ResourceData: both fields of a
\* ResourceData are omitempty.
marshalResourceData(d) ==
  [f \in { n \in {"externalName", "resourceName"} :
             IF n = "externalName" THEN d.ExternalName # "" ELSE d.ResourceName # "" } |->
     IF f = "externalName" THEN d.ExternalName ELSE d.ResourceName]

unmarshalResourceData(j) ==
  ResourceData(IF "externalName" \in DOMAIN j THEN j["externalName"] ELSE "",
               IF "resourceName" \in DOMAIN j THEN j["resourceName"] ELSE "")

jsonMarshal(resources) == [r \in DOMAIN resources |-> marshalResourceData(resources[r])]

jsonUnmarshal(resourcesJSON) ==
  [r \in DOMAIN resourcesJSON |-> unmarshalResourceData(resourcesJSON[r])]

\* The data of a ConfigMap read by Get with one composition's entry set.
withEntry(configMap, encodedKey, resourcesJSON) ==
  [configMap EXCEPT !.Data = MapSet(@, encodedKey, resourcesJSON)]

withoutEntry(configMap, encodedKey) == [configMap EXCEPT !.Data = MapDel(@, encodedKey)]

ConfigMapStoreSave(api, clusterID, compositionKey, resources) ==
  LET configMapName == getConfigMapName(clusterID)
      encodedKey == encodeKey(compositionKey)
      resourcesJSON == jsonMarshal(resources)
      got == ConfigMapsGet(api, configMapName)
  IN  IF ~got.found
        THEN ConfigMapsCreate(api, configMapName, [e \in {encodedKey} |-> resourcesJSON])
        ELSE ConfigMapsUpdate(api, configMapName,
                              withEntry(got.configMap, encodedKey, resourcesJSON))

\* The resources unmarshalled from a ConfigMap read by Get.
loadedFrom(got, encodedKey) ==
  IF ~got.found THEN EmptyMap
  ELSE IF encodedKey \notin DOMAIN got.configMap.Data THEN EmptyMap
  ELSE jsonUnmarshal(got.configMap.Data[encodedKey])

ConfigMapStoreLoad(api, clusterID, compositionKey) ==
  loadedFrom(ConfigMapsGet(api, getConfigMapName(clusterID)), encodeKey(compositionKey))

ConfigMapStorePurge(api, clusterID, compositionKey) ==
  LET configMapName == getConfigMapName(clusterID)
      got == ConfigMapsGet(api, configMapName)
      configMap == withoutEntry(got.configMap, encodeKey(compositionKey))
  IN  IF ~got.found THEN [api |-> api, err |-> FALSE]
      ELSE IF DOMAIN configMap.Data = {} THEN ConfigMapsDelete(api, configMapName)
      ELSE ConfigMapsUpdate(api, configMapName, configMap)

ConfigMapStoreDeleteResource(api, clusterID, compositionKey, resourceKey) ==
  LET resources == MapDel(ConfigMapStoreLoad(api, clusterID, compositionKey), resourceKey)
  IN  IF DOMAIN resources = {}
        THEN ConfigMapStorePurge(api, clusterID, compositionKey)
        ELSE ConfigMapStoreSave(api, clusterID, compositionKey, resources)

\* ---------------------------------------------------------------- DynamoDBStore
\* The table by <<cluster_id, composition_key>>: the item as written, and the
\* copy an eventually consistent read may be served from.
NoTable == [table |-> EmptyMap, replica |-> EmptyMap]

\* The nested map written per resource: an attribute only for a non-empty field.
resourceMap(d) ==
  [f \in { n \in {"externalName", "resourceName"} :
             IF n = "externalName" THEN d.ExternalName # "" ELSE d.ResourceName # "" } |->
     IF f = "externalName" THEN d.ExternalName ELSE d.ResourceName]

\* PutItem replaces the item of the key.
DynamoDBStoreSave(db, clusterID, compositionKey, resources) ==
  [db |-> [db EXCEPT !.table =
             MapSet(@, <<clusterID, compositionKey>>,
                    [resources |-> [r \in DOMAIN resources |-> resourceMap(resources[r])]])],
   err |-> FALSE]

\* GetItem without ConsistentRead: node is the copy of the table that serves
\* the read.
DynamoDBStoreLoad(node, clusterID, compositionKey) ==
  IF <<clusterID, compositionKey>> \notin DOMAIN node THEN EmptyMap
  ELSE LET resourcesAttr == node[<<clusterID, compositionKey>>].resources
       IN  [r \in DOMAIN resourcesAttr |->
              ResourceData(IF "externalName" \in DOMAIN resourcesAttr[r]
                             THEN resourcesAttr[r]["externalName"] ELSE "",
                           IF "resourceName" \in DOMAIN resourcesAttr[r]
                             THEN resourcesAttr[r]["resourceName"] ELSE "")]

\* DeleteItem.
DynamoDBStorePurge(db, clusterID, compositionKey) ==
  [db |-> [db EXCEPT !.table = MapDel(@, <<clusterID, compositionKey>>)], err |-> FALSE]

\* UpdateItem "REMOVE #resources.#rk" under the condition that the item and the
\* entry exist.
UpdateItemRemove(db, key, resourceKey) ==
  IF key \in DOMAIN db.table /\ resourceKey \in DOMAIN db.table[key].resources
    THEN [db |-> [db EXCEPT !.table[key].resources = MapDel(@, resourceKey)], err |-> ""]
    ELSE [db |-> db, err |-> "ConditionalCheckFailedException"]

\* No error is taken for a failed condition.
isConditionalCheckFailedException_Never(err) == FALSE

isConditionalCheckFailedException(err) == err = "ConditionalCheckFailedException"

DynamoDBStoreDeleteResource(db, clusterID, compositionKey, resourceKey) ==
  LET updated == UpdateItemRemove(db, <<clusterID, compositionKey>>, resourceKey)
  IN  IF updated.err # ""
        THEN [db |-> db, err |-> ~isConditionalCheckFailedException(updated.err)]
        ELSE [db |-> updated.db, err |-> FALSE]

\* ---------------------------------------------------------------- helpers of fn.go
getAnnotationValue(resource, annotation) == resource.annotations[annotation]

getMetadataName(resource) == resource.name

getMetadataNameFromResource(req, resourceName) ==
  IF resourceName \in DOMAIN req.desired.resources
     /\ getMetadataName(req.desired.resources[resourceName]) # ""
    THEN getMetadataName(req.desired.resources[resourceName])
    ELSE IF resourceName \in DOMAIN req.observed.resources
           THEN getMetadataName(req.observed.resources[resourceName])
           ELSE ""

\* The lookup without the fallback to the observed resource.
getAnnotationValueFromResource_DesiredOnly(req, resourceName, annotation) ==
  IF resourceName \in DOMAIN req.desired.resources
    THEN getAnnotationValue(req.desired.resources[resourceName], annotation)
    ELSE ""

getAnnotationValueFromResource(req, resourceName, annotation) ==
  IF resourceName \in DOMAIN req.desired.resources
     /\ getAnnotationValue(req.desired.resources[resourceName], annotation) # ""
    THEN getAnnotationValue(req.desired.resources[resourceName], annotation)
    ELSE IF resourceName \in DOMAIN req.observed.resources
           THEN getAnnotationValue(req.observed.resources[resourceName], annotation)
           ELSE ""

\* The gate opened by any value of the enable annotation.
checkEnableAnnotation_AnyValue(composite) ==
  getAnnotationValue(composite, EnableExternalStoreAnnotation) # ""

checkEnableAnnotation(composite) ==
  LET enableValue == getAnnotationValue(composite, EnableExternalStoreAnnotation)
  IN  enableValue = "true" \/ enableValue = "yes" \/ enableValue = "1"

shouldEnableExternalStore(req) ==
  checkEnableAnnotation(req.desired.composite) \/ checkEnableAnnotation(req.observed.composite)

checkPurgeAnnotation(composite) ==
  LET purgeValue == getAnnotationValue(composite, PurgeExternalStoreAnnotation)
  IN  purgeValue = "true" \/ purgeValue = "yes" \/ purgeValue = "1"

\* The purge annotation read from the observed composite only.
shouldPurgeExternalStore_ObservedOnly(req) == checkPurgeAnnotation(req.observed.composite)

shouldPurgeExternalStore(req) ==
  checkPurgeAnnotation(req.desired.composite) \/ checkPurgeAnnotation(req.observed.composite)

\* The require-restore annotation read from the desired composite only.
shouldRequireRestore_DesiredOnly(req) ==
  getAnnotationValue(req.desired.composite, RequireRestoreAnnotation) = "true"

shouldRequireRestore(req) ==
  \/ getAnnotationValue(req.observed.composite, RequireRestoreAnnotation) = "true"
  \/ getAnnotationValue(req.desired.composite, RequireRestoreAnnotation) = "true"

\* The lookup that prefers the desired composite.
getConfigAnnotation_DesiredFirst(req, annotation) ==
  IF getAnnotationValue(req.desired.composite, annotation) # ""
    THEN getAnnotationValue(req.desired.composite, annotation)
    ELSE getAnnotationValue(req.observed.composite, annotation)

\* The closure getConfigAnnotation of getConfigFromAnnotations: observed first.
getConfigAnnotation(req, annotation) ==
  IF getAnnotationValue(req.observed.composite, annotation) # ""
    THEN getAnnotationValue(req.observed.composite, annotation)
    ELSE getAnnotationValue(req.desired.composite, annotation)

getConfigFromAnnotations(req) ==
  [ ClusterID   |-> IF getConfigAnnotation(req, ClusterIDAnnotation) # ""
                      THEN getConfigAnnotation(req, ClusterIDAnnotation) ELSE "default",
    StoreType   |-> IF getConfigAnnotation(req, StoreTypeAnnotation) # ""
                      THEN getConfigAnnotation(req, StoreTypeAnnotation) ELSE "awsdynamodb",
    BackupScope |-> IF getConfigAnnotation(req, BackupScopeAnnotation) # ""
                      THEN getConfigAnnotation(req, BackupScopeAnnotation)
                      ELSE BackupScopeOrphaned ]

\* The value of a key of a Go map[string]string, "" when the key is absent.
valueOf(m, k) == IF k \in DOMAIN m THEN m[k] ELSE ""

RECURSIVE parseINILines(_, _, _)
\* The loop of parseAWSINICredentials over the trimmed lines.  A line is
\* <<"blank">>, <<"comment">>, <<"section", name>> for "[name]",
\* <<"pair", key, value>> for "key = value", or <<"text">> for anything else.
parseINILines(lines, inDefaultSection, creds) ==
  IF lines = <<>> THEN creds
  ELSE LET line == Head(lines)
       IN  IF line[1] \in {"blank", "comment"}
             THEN parseINILines(Tail(lines), inDefaultSection, creds)
           ELSE IF line[1] = "section"
             THEN parseINILines(Tail(lines), line[2] = "default", creds)
           ELSE IF ~inDefaultSection
             THEN parseINILines(Tail(lines), inDefaultSection, creds)
           ELSE IF line[1] = "pair"
             THEN parseINILines(Tail(lines), inDefaultSection,
                    CASE line[2] = "aws_access_key_id" -> MapSet(creds, "accessKeyId", line[3])
                      [] line[2] = "aws_secret_access_key" ->
                           MapSet(creds, "secretAccessKey", line[3])
                      [] line[2] = "aws_session_token" -> MapSet(creds, "sessionToken", line[3])
                      [] OTHER -> creds)
           ELSE parseINILines(Tail(lines), inDefaultSection, creds)

parseAWSINICredentials(iniContent) ==
  LET creds == parseINILines(iniContent, FALSE, EmptyMap)
  IN  IF valueOf(creds, "accessKeyId") = "" \/ valueOf(creds, "secretAccessKey") = ""
        THEN [creds |-> EmptyMap, err |-> TRUE]
        ELSE [creds |-> creds, err |-> FALSE]

\* The credentials parser that takes whatever the INI format yields.
getAWSCredentials_Unvalidated(req) ==
  IF ~req.credentials.present THEN [creds |-> EmptyMap, err |-> FALSE]
  ELSE IF req.credentials.json.valid THEN [creds |-> req.credentials.json.value, err |-> FALSE]
  ELSE [creds |-> parseINILines(req.credentials.lines, FALSE, EmptyMap), err |-> FALSE]

\* getAWSCredentials: the "credentials" entry of the "aws-creds" credential, read
\* as JSON (json is what json.Unmarshal into a map[string]string makes of the
\* bytes) and, failing that, as AWS CLI INI (lines).  No entry gives nil.
getAWSCredentials(req) ==
  IF ~req.credentials.present THEN [creds |-> EmptyMap, err |-> FALSE]
  ELSE IF req.credentials.json.valid THEN [creds |-> req.credentials.json.value, err |-> FALSE]
  ELSE parseAWSINICredentials(req.credentials.lines)

\* NewDynamoDBStore, up to the client: credentials that are given must have both
\* required fields.
NewDynamoDBStore(awsCreds) ==
  [err |-> /\ DOMAIN awsCreds # {}
           /\ (valueOf(awsCreds, "accessKeyId") = "" \/ valueOf(awsCreds, "secretAccessKey") = "")]

\* The closure checkDeletionCriteria of shouldDeleteFromExternalStoreWithFallback.
checkDeletionCriteria(resource) ==
  [ hasDeletePolicy |-> resource.spec.has /\ resource.spec.deletionPolicy = DeletionPolicyDelete,
    hasDeleteManagementPolicy |->
      resource.spec.has /\ resource.spec.managementPolicies \cap {"*", DeletionPolicyDelete} # {},
    hasSpec |-> resource.spec.has ]

\* The deletion criteria read from the desired resource alone.
shouldDeleteFromExternalStoreWithFallback_NoFallback(req, resourceName) ==
  LET d == checkDeletionCriteria(req.desired.resources[resourceName])
  IN  d.hasDeletePolicy /\ d.hasDeleteManagementPolicy

shouldDeleteFromExternalStoreWithFallback(req, resourceName) ==
  LET d == checkDeletionCriteria(req.desired.resources[resourceName])
      c == IF ~d.hasSpec /\ resourceName \in DOMAIN req.observed.resources
             THEN checkDeletionCriteria(req.observed.resources[resourceName])
             ELSE d
  IN  c.hasDeletePolicy /\ c.hasDeleteManagementPolicy

\* The scope check that asks for both orphan criteria.
shouldProcessResource_Both(resource, backupScope) ==
  IF backupScope = BackupScopeAll THEN TRUE
  ELSE IF backupScope = BackupScopeOrphaned
    THEN IF resource.spec.has
           THEN LET hasOrphanPolicy == resource.spec.deletionPolicy = DeletionPolicyOrphan
                    managementPoliciesOk ==
                      resource.spec.managementPolicies \cap {"*", DeletionPolicyDelete} = {}
                IN  hasOrphanPolicy /\ managementPoliciesOk
           ELSE FALSE
    ELSE TRUE

\* The scope check that treats a scope it does not know as orphaned.
shouldProcessResource_UnknownAsOrphaned(resource, backupScope) ==
  IF backupScope = BackupScopeAll THEN TRUE
  ELSE IF resource.spec.has
    THEN \/ resource.spec.deletionPolicy = DeletionPolicyOrphan
         \/ resource.spec.managementPolicies \cap {"*", DeletionPolicyDelete} = {}
    ELSE FALSE

\* The scope check that looks for a spec and not at its policies.
shouldProcessResource_SpecOnly(resource, backupScope) ==
  IF backupScope = BackupScopeOrphaned THEN resource.spec.has ELSE TRUE

shouldProcessResource(resource, backupScope) ==
  IF backupScope = BackupScopeAll THEN TRUE
  ELSE IF backupScope = BackupScopeOrphaned
    THEN IF resource.spec.has
           THEN LET hasOrphanPolicy == resource.spec.deletionPolicy = DeletionPolicyOrphan
                    managementPoliciesOk ==
                      resource.spec.managementPolicies \cap {"*", DeletionPolicyDelete} = {}
                IN  hasOrphanPolicy \/ managementPoliciesOk
           ELSE FALSE
    ELSE TRUE

\* The key computed from the composite's own kind and namespace, whatever the
\* override annotations say.
compositionKey_NoOverride(req) ==
  LET o == req.observed.composite
      claimNamespace == IF o.claimNamespace # "" THEN o.claimNamespace
                        ELSE IF o.namespace # "" THEN o.namespace ELSE "none"
      claimName == IF o.claimName # "" THEN o.claimName ELSE "none"
  IN  <<claimNamespace, claimName, o.apiVersion, o.kind, o.name>>

\* The key whose namespace segment prefers the composite's own namespace to the
\* claim-namespace label.
compositionKey_OwnNamespaceFirst(req) ==
  LET o == req.observed.composite
      claimNamespace == IF o.namespace # "" THEN o.namespace
                        ELSE IF o.claimNamespace # "" THEN o.claimNamespace ELSE "none"
      claimName == IF o.claimName # "" THEN o.claimName ELSE "none"
      overrideKind ==
        IF getAnnotationValue(req.desired.composite, OverrideKindAnnotation) # ""
          THEN getAnnotationValue(req.desired.composite, OverrideKindAnnotation)
          ELSE getAnnotationValue(req.observed.composite, OverrideKindAnnotation)
      overrideNamespace ==
        IF getAnnotationValue(req.desired.composite, OverrideNamespaceAnnotation) # ""
          THEN getAnnotationValue(req.desired.composite, OverrideNamespaceAnnotation)
          ELSE getAnnotationValue(req.observed.composite, OverrideNamespaceAnnotation)
  IN  << IF overrideNamespace # "" THEN overrideNamespace ELSE claimNamespace, claimName,
         o.apiVersion, IF overrideKind # "" THEN overrideKind ELSE o.kind, o.name >>

\* The composition key of RunFunction: {namespace}/{claimName}/{apiVersion}/{kind}/{name},
\* kept as the tuple of its five segments.
compositionKey(req) ==
  LET o == req.observed.composite
      claimNamespace == IF o.claimNamespace # "" THEN o.claimNamespace
                        ELSE IF o.namespace # "" THEN o.namespace ELSE "none"
      claimName == IF o.claimName # "" THEN o.claimName ELSE "none"
      overrideKind ==
        IF getAnnotationValue(req.desired.composite, OverrideKindAnnotation) # ""
          THEN getAnnotationValue(req.desired.composite, OverrideKindAnnotation)
          ELSE getAnnotationValue(req.observed.composite, OverrideKindAnnotation)
      kindForKey == IF overrideKind # "" THEN overrideKind ELSE o.kind
      overrideNamespace ==
        IF getAnnotationValue(req.desired.composite, OverrideNamespaceAnnotation) # ""
          THEN getAnnotationValue(req.desired.composite, OverrideNamespaceAnnotation)
          ELSE getAnnotationValue(req.observed.composite, OverrideNamespaceAnnotation)
      namespaceForKey == IF overrideNamespace # "" THEN overrideNamespace ELSE claimNamespace
  IN  <<namespaceForKey, claimName, o.apiVersion, kindForKey, o.name>>

\* Sets the given annotations of a resource (a function from some keys to values).
setAnnotations(resource, new) ==
  [resource EXCEPT !.annotations =
     [a \in AnnotationKeys |-> IF a \in DOMAIN new THEN new[a] ELSE resource.annotations[a]]]

\* The observed resource left with its tracking annotations after a deletion.
removeTrackingAnnotationsFromObserved_Kept(resource) == resource

removeTrackingAnnotationsFromObserved(resource) ==
  setAnnotations(resource,
    [a \in { StoredExternalNameAnnotation, ExternalNameStoredAnnotation,
             StoredResourceNameAnnotation, ResourceNameStoredAnnotation } |-> ""])

\* mergeObservedAnnotations: every annotation present on the observed resource is
\* assigned into the desired resource's annotations.
mergeObservedAnnotations(req, resourceName, desiredResource) ==
  IF resourceName \in DOMAIN req.observed.resources
    THEN LET observedFields == req.observed.resources[resourceName].annotations
         IN  setAnnotations(desiredResource,
               [a \in { k \in AnnotationKeys : observedFields[k] # "" } |-> observedFields[a]])
    ELSE desiredResource

\* ---------------------------------------------------------------- RunFunction, by phase
\* A store call as the invocation issued it: the operation, its argument (the
\* resource key of a deleteResource, the resources of a save) and whether it
\* returned an error.
Call(op, arg, err) == [op |-> op, arg |-> arg, err |-> err]

\* What an invocation leaves behind: the store, the desired resources of the
\* response (response.To shares the request's desired state, which the phases
\* mutate in place), the fatal result ("" when none), the store calls in order,
\* the resources the restore phase logged a restoration for, and the
\* newResourceData batch that was merged into a save ("Will store ..." in the log).
\* message holds the values a fatal message is formatted with, target the
\* clusterID and compositionKey the store calls are issued with, storeType the
\* type of the store they are issued to.
Response(data, desired, fatal, calls, restoredExternalName, restoredResourceName, batch) ==
  [ data |-> data, desired |-> desired, fatal |-> fatal, calls |-> calls,
    restoredExternalName |-> restoredExternalName,
    restoredResourceName |-> restoredResourceName, batch |-> batch,
    message |-> <<>>, target |-> <<>>, storeType |-> "" ]

\* response.Fatal with errors.Errorf(format, args...): the values the message names.
Fatalf(response, args) == [response EXCEPT !.message = args]

\* First pass of RunFunction: the desired resources to delete from the store.
RetiringResources(req) ==
  { rn \in DOMAIN req.desired.resources :
      /\ getAnnotationValueFromResource(req, rn, StoredExternalNameAnnotation) # ""
      /\ shouldDeleteFromExternalStoreWithFallback(req, rn) }

\* The desired-side effect of the first pass on one retiring resource.
markDeleted(resource, timestamp) ==
  setAnnotations(resource,
    [a \in { StoredExternalNameAnnotation, ExternalNameStoredAnnotation,
             ExternalNameDeletedAnnotation } |->
       IF a = ExternalNameDeletedAnnotation THEN timestamp ELSE ""])

\* Second pass: what restoring the resource name writes into a desired resource.
restoreResourceName(resource, storedData, timestamp) ==
  setAnnotations([resource EXCEPT !.name = storedData.ResourceName],
    [a \in {StoredResourceNameAnnotation, ResourceNameRestoredAnnotation} |->
       IF a = StoredResourceNameAnnotation THEN storedData.ResourceName ELSE timestamp])

\* The restore writes with the tracking annotation of the capture phase in place
\* of the restoration timestamp annotation.
restoreExternalName_StoredTimestamp(resource, storedData, timestamp) ==
  setAnnotations(resource,
    [a \in {ExternalNameAnnotation, StoredExternalNameAnnotation,
            ExternalNameStoredAnnotation} |->
       IF a = ExternalNameStoredAnnotation THEN timestamp ELSE storedData.ExternalName])

\* Second pass: what restoring the external name writes into a desired resource.
restoreExternalName(resource, storedData, timestamp) ==
  setAnnotations(resource,
    [a \in {ExternalNameAnnotation, StoredExternalNameAnnotation,
            ExternalNameRestoredAnnotation} |->
       IF a = ExternalNameRestoredAnnotation THEN timestamp ELSE storedData.ExternalName])

\* The scope check that skips the resource in require-restore mode as well.
skipsRestore_ScopeOnly(shouldProcess, requireRestore) == ~shouldProcess

\* Second pass: the resource is skipped for the scope, unless require-restore is set.
skipsRestore(shouldProcess, requireRestore) == ~shouldProcess /\ ~requireRestore

\* The second pass that looks a resource up in the store only when it has no
\* external name yet.
restoreResource_NamedSkipped(req, resourceName, local, requireRestore, backupScope, timestamp) ==
  LET resource == req.desired.resources[resourceName]
      shouldProcess == shouldProcessResource(resource, backupScope)
      hasExistingExternalName ==
        getAnnotationValueFromResource(req, resourceName, ExternalNameAnnotation) # ""
      hasExistingResourceName == getMetadataNameFromResource(req, resourceName) # ""
      unchanged == [resource |-> resource, fatal |-> "", ext |-> FALSE, name |-> FALSE]
  IN  IF skipsRestore(shouldProcess, requireRestore) \/ hasExistingExternalName THEN unchanged
      ELSE IF ~local.exists
        THEN [unchanged EXCEPT !.fatal = IF requireRestore THEN "require-restore: no composition data" ELSE ""]
      ELSE IF resourceName \notin DOMAIN local.resources
        THEN [unchanged EXCEPT !.fatal = IF requireRestore THEN "require-restore: no data for resource" ELSE ""]
      ELSE
        LET storedData == local.resources[resourceName]
            restoreName == ~hasExistingResourceName /\ storedData.ResourceName # ""
            r1 == IF restoreName THEN restoreResourceName(resource, storedData, timestamp)
                  ELSE resource
            r2 == IF storedData.ExternalName # ""
                    THEN restoreExternalName(r1, storedData, timestamp) ELSE r1
        IN  [resource |-> r2, fatal |-> "", ext |-> storedData.ExternalName # "",
             name |-> restoreName]

\* Second pass of RunFunction on one desired resource.  local is
\* resourceDataStore: [exists, resources].  The result says whether the loop
\* returned a fatal result at this resource.
restoreResource(req, resourceName, local, requireRestore, backupScope, timestamp) ==
  LET resource == req.desired.resources[resourceName]
      shouldProcess == shouldProcessResource(resource, backupScope)
      hasExistingExternalName ==
        getAnnotationValueFromResource(req, resourceName, ExternalNameAnnotation) # ""
      hasExistingResourceName == getMetadataNameFromResource(req, resourceName) # ""
      unchanged == [resource |-> resource, fatal |-> "", ext |-> FALSE, name |-> FALSE]
  IN  IF skipsRestore(shouldProcess, requireRestore) THEN unchanged
      ELSE IF ~local.exists
        THEN [unchanged EXCEPT !.fatal = IF requireRestore THEN "require-restore: no composition data" ELSE ""]
      ELSE IF resourceName \notin DOMAIN local.resources
        THEN [unchanged EXCEPT !.fatal = IF requireRestore THEN "require-restore: no data for resource" ELSE ""]
      ELSE
        LET storedData == local.resources[resourceName]
            restoreName == ~hasExistingResourceName /\ storedData.ResourceName # ""
            restoreExt == ~hasExistingExternalName /\ storedData.ExternalName # ""
            r1 == IF restoreName THEN restoreResourceName(resource, storedData, timestamp)
                  ELSE resource
            r2 == IF restoreExt THEN restoreExternalName(r1, storedData, timestamp) ELSE r1
        IN  [resource |-> r2, fatal |-> "", ext |-> restoreExt, name |-> restoreName]

RECURSIVE restoreLoop(_, _, _, _, _, _, _)
\* Second pass over the desired resources in the order the map iteration takes
\* (order); acc is [desired, fatal, at, ext, name], at the resource the loop
\* returned a fatal result at.  The loop stops at a fatal result.
restoreLoop(req, order, local, requireRestore, backupScope, timestamp, acc) ==
  IF order = <<>> \/ acc.fatal # "" THEN acc
  ELSE LET rn == Head(order)
           after(r) ==
             [ desired |-> [acc.desired EXCEPT ![rn] = r.resource],
               fatal |-> r.fatal,
               at |-> IF r.fatal # "" THEN rn ELSE acc.at,
               ext |-> IF r.ext THEN acc.ext \cup {rn} ELSE acc.ext,
               name |-> IF r.name THEN acc.name \cup {rn} ELSE acc.name ]
           rest(next) ==
             restoreLoop(req, Tail(order), local, requireRestore, backupScope, timestamp, next)
           \* r is worked out once per pass, and so is the loop's state after it
           passed == { after(r) :
                         r \in { restoreResource([req EXCEPT !.desired.resources = acc.desired],
                                                 rn, local, requireRestore, backupScope,
                                                 timestamp) } }
       IN  CHOOSE out \in { rest(next) : next \in passed } : TRUE

\* The third pass in which the backup scope gates the resource name as well.
captureResource_ScopedName(req, resourceName, cache, backupScope) ==
  LET resource == req.observed.resources[resourceName]
      shouldProcessForStore ==
        IF resourceName \in DOMAIN cache THEN cache[resourceName]
        ELSE shouldProcessResource(resource, backupScope)
      externalNameValue == getAnnotationValue(resource, ExternalNameAnnotation)
      resourceNameValue == getMetadataName(resource)
      storedExternalName == getAnnotationValue(resource, StoredExternalNameAnnotation)
      storedResourceName == getAnnotationValue(resource, StoredResourceNameAnnotation)
      shouldStoreExternalName ==
        shouldProcessForStore /\ externalNameValue # "" /\ storedExternalName # externalNameValue
      shouldStoreResourceName ==
        shouldProcessForStore /\ resourceNameValue # "" /\ storedResourceName # resourceNameValue
  IN  ResourceData(IF shouldStoreExternalName THEN externalNameValue ELSE "",
                   IF shouldStoreResourceName THEN resourceNameValue ELSE "")

\* Third pass of RunFunction on one observed resource: the ResourceData to store
\* for it (both fields "" when there is nothing to store).  cache is
\* resourceShouldProcess, filled by the second pass.
captureResource(req, resourceName, cache, backupScope) ==
  LET resource == req.observed.resources[resourceName]
      shouldProcessForStore ==
        IF resourceName \in DOMAIN cache THEN cache[resourceName]
        ELSE shouldProcessResource(resource, backupScope)
      externalNameValue == getAnnotationValue(resource, ExternalNameAnnotation)
      resourceNameValue == getMetadataName(resource)
      storedExternalName == getAnnotationValue(resource, StoredExternalNameAnnotation)
      storedResourceName == getAnnotationValue(resource, StoredResourceNameAnnotation)
      shouldStoreExternalName ==
        shouldProcessForStore /\ externalNameValue # "" /\ storedExternalName # externalNameValue
      shouldStoreResourceName ==
        resourceNameValue # "" /\ storedResourceName # resourceNameValue
  IN  ResourceData(IF shouldStoreExternalName THEN externalNameValue ELSE "",
                   IF shouldStoreResourceName THEN resourceNameValue ELSE "")

\* newResourceData after the third pass.
newResourceDataOf(req, cache, backupScope) ==
  LET all == [rn \in DOMAIN req.observed.resources |->
                captureResource(req, rn, cache, backupScope)]
  IN  [rn \in { k \in DOMAIN all : all[k] # ResourceData("", "") } |-> all[rn]]

\* The merge in which a value the store already holds wins over the new one.
mergeResourceData_KeepExisting(existingData, newResourceData) ==
  [k \in (DOMAIN existingData) \cup (DOMAIN newResourceData) |->
     IF k \notin DOMAIN newResourceData THEN existingData[k]
     ELSE IF k \notin DOMAIN existingData THEN newResourceData[k]
     ELSE ResourceData(
            IF existingData[k].ExternalName # "" THEN existingData[k].ExternalName
            ELSE newResourceData[k].ExternalName,
            IF existingData[k].ResourceName # "" THEN existingData[k].ResourceName
            ELSE newResourceData[k].ResourceName)]

\* The merge whose resource name falls back to the existing external name.
mergeResourceData_WrongField(existingData, newResourceData) ==
  [k \in (DOMAIN existingData) \cup (DOMAIN newResourceData) |->
     IF k \notin DOMAIN newResourceData THEN existingData[k]
     ELSE LET existing == IF k \in DOMAIN existingData THEN existingData[k]
                          ELSE ResourceData("", "")
              newData == newResourceData[k]
          IN  ResourceData(
                IF newData.ExternalName # "" THEN newData.ExternalName ELSE existing.ExternalName,
                IF newData.ResourceName # "" THEN newData.ResourceName ELSE existing.ExternalName)]

\* allResourceData: the existing data with the new data merged in field by field.
mergeResourceData(existingData, newResourceData) ==
  [k \in (DOMAIN existingData) \cup (DOMAIN newResourceData) |->
     IF k \notin DOMAIN newResourceData THEN existingData[k]
     ELSE LET existing == IF k \in DOMAIN existingData THEN existingData[k]
                          ELSE ResourceData("", "")
              newData == newResourceData[k]
          IN  ResourceData(
                IF newData.ExternalName # "" THEN newData.ExternalName ELSE existing.ExternalName,
                IF newData.ResourceName # "" THEN newData.ResourceName ELSE existing.ResourceName)]

\* The tracking annotations added to one desired resource after a successful save.
stampResource(resource, resourceName, newResourceData, cache, timestamp) ==
  IF resourceName \notin DOMAIN newResourceData THEN resource
  ELSE LET storedData == newResourceData[resourceName]
           shouldAddExternalNameTracking ==
             resourceName \in DOMAIN cache /\ cache[resourceName] /\ storedData.ExternalName # ""
           shouldAddResourceNameTracking == storedData.ResourceName # ""
           r1 == IF shouldAddExternalNameTracking
                   THEN setAnnotations(resource,
                          [a \in {StoredExternalNameAnnotation, ExternalNameStoredAnnotation} |->
                             IF a = StoredExternalNameAnnotation
                               THEN storedData.ExternalName ELSE timestamp])
                   ELSE resource
       IN  IF shouldAddResourceNameTracking
             THEN setAnnotations(r1,
                    [a \in {StoredResourceNameAnnotation, ResourceNameStoredAnnotation} |->
                       IF a = StoredResourceNameAnnotation
                         THEN storedData.ResourceName ELSE timestamp])
             ELSE r1

\* The sequence of the elements of order that are in set s.
InOrder(order, s) == SelectSeq(order, LAMBDA rn : rn \in s)

\* RunFunction after a successful Load: retire, purge when empty, restore,
\* capture, save, stamp, merge.  loaded is what Load returned, calls0 the calls
\* issued so far, order the iteration order of the desired resources.
Reconcile(req, data, fault, timestamp, order, clusterID, key, backupScope, loaded, calls0) ==
  LET requireRestore == shouldRequireRestore(req)
      \* ---- first pass: retire
      retiring == RetiringResources(req)
      deleteFails == fault = "delete"
      calls1 == calls0 \o [i \in 1..Len(InOrder(order, retiring)) |->
                             Call("deleteResource", InOrder(order, retiring)[i], deleteFails)]
      data1 == IF deleteFails THEN data
               ELSE StoreDeleteResources(data, clusterID, key, retiring)
      compositionData1 == IF deleteFails THEN loaded ELSE MapDelAll(loaded, retiring)
      observed1 == [rn \in DOMAIN req.observed.resources |->
                      IF rn \in retiring /\ ~deleteFails
                        THEN removeTrackingAnnotationsFromObserved(req.observed.resources[rn])
                        ELSE req.observed.resources[rn]]
      desired1 == [rn \in DOMAIN req.desired.resources |->
                     IF rn \in retiring THEN markDeleted(req.desired.resources[rn], timestamp)
                     ELSE req.desired.resources[rn]]
      \* ---- purge of a composition that has no data left
      purgeEmpty == compositionData1 = EmptyMap
      purgeFails == fault = "purge"
      calls2 == IF purgeEmpty THEN Append(calls1, Call("purge", "", purgeFails)) ELSE calls1
      data2 == IF purgeEmpty /\ ~purgeFails THEN StorePurge(data1, clusterID, key) ELSE data1
      local == [exists |-> ~(purgeEmpty /\ ~purgeFails), resources |-> compositionData1]
      req1 == [req EXCEPT !.desired.resources = desired1, !.observed.resources = observed1]
      \* ---- second pass: restore
      restoring == restoreLoop(req1, order, local, requireRestore, backupScope, timestamp,
                     [desired |-> desired1, fatal |-> "", at |-> "", ext |-> {}, name |-> {}])
      cache == IF requireRestore THEN EmptyMap
               ELSE [rn \in DOMAIN desired1 |-> shouldProcessResource(desired1[rn], backupScope)]
      \* ---- third pass: capture
      newResourceData == newResourceDataOf(req1, cache, backupScope)
      doSave == ~requireRestore /\ newResourceData # EmptyMap
      allResourceData == mergeResourceData(IF local.exists THEN local.resources ELSE EmptyMap,
                                           newResourceData)
      saveFails == fault = "save"
      calls3 == IF doSave THEN Append(calls2, Call("save", allResourceData, saveFails)) ELSE calls2
      data3 == IF doSave /\ ~saveFails THEN StoreSave(data2, clusterID, key, allResourceData)
               ELSE data2
      \* ---- final step: merge observed annotations, and the response
      finish(restored) ==
        LET desired3 == IF doSave
                          THEN [rn \in DOMAIN restored.desired |->
                                  stampResource(restored.desired[rn], rn, newResourceData, cache,
                                                timestamp)]
                          ELSE restored.desired
            desired4 == [rn \in DOMAIN desired3 |->
                           mergeObservedAnnotations(req1, rn, desired3[rn])]
        IN  IF restored.fatal # ""
              THEN Fatalf(Response(data2, restored.desired, restored.fatal, calls2, restored.ext,
                                   restored.name, EmptyMap),
                          IF restored.fatal = "require-restore: no data for resource"
                            THEN <<restored.at, key>> ELSE <<key>>)
            ELSE IF doSave /\ saveFails
              THEN Response(data2, restored.desired, "failed to save resource data to store",
                            calls3, restored.ext, restored.name, newResourceData)
            ELSE Response(data3, desired4, "", calls3, restored.ext, restored.name,
                          IF doSave THEN newResourceData ELSE EmptyMap)
  IN  CHOOSE response \in { finish(restored) : restored \in {restoring} } : TRUE

SupportedStoreTypes == {"awsdynamodb", "mock", "k8sconfigmap"}

\* RunFunction.  fault is the store call that returns an error in this
\* invocation ("init": the constructor of the store does), timestamp the value of time.Now(), order the iteration order of
\* the desired resources.
RunFunction(req, data, fault, timestamp, order) ==
  LET config == getConfigFromAnnotations(req)
      clusterID == config.ClusterID
      backupScope == config.BackupScope
      key == compositionKey(req)
      unchanged == req.desired.resources
      awsCreds == getAWSCredentials(req)
      called(response) ==
        [response EXCEPT !.target = <<clusterID, key>>, !.storeType = config.StoreType]
  IN  IF ~shouldEnableExternalStore(req)
        THEN Response(data, unchanged, "", <<>>, {}, {}, EmptyMap)
      ELSE IF config.StoreType = "awsdynamodb" /\ awsCreds.err
        THEN Response(data, unchanged, "failed to parse AWS credentials", <<>>, {}, {}, EmptyMap)
      ELSE IF config.StoreType \notin SupportedStoreTypes
        THEN Fatalf(Response(data, unchanged, "unsupported external store type", <<>>, {}, {},
                             EmptyMap), <<config.StoreType>>)
      ELSE IF \/ fault = "init"
              \/ config.StoreType = "awsdynamodb" /\ NewDynamoDBStore(awsCreds.creds).err
        THEN Fatalf(Response(data, unchanged, "failed to initialize store", <<>>, {}, {},
                             EmptyMap), <<config.StoreType>>)
      ELSE IF shouldPurgeExternalStore(req)
        THEN IF fault = "purge"
               THEN called(Response(data, unchanged, "failed to purge external store",
                                    <<Call("purge", "", TRUE)>>, {}, {}, EmptyMap))
               ELSE called(Response(StorePurge(data, clusterID, key), unchanged, "",
                                    <<Call("purge", "", FALSE)>>, {}, {}, EmptyMap))
      ELSE IF fault = "load"
        THEN called(Response(data, unchanged, "failed to load resource data from store",
                             <<Call("load", "", TRUE)>>, {}, {}, EmptyMap))
      ELSE LET loadedResources == StoreLoad(data, clusterID, key)
           IN  IF shouldRequireRestore(req) /\ loadedResources = EmptyMap
                 THEN called(Fatalf(Response(data, unchanged,
                                             "require-restore: no resource data found",
                                             <<Call("load", "", FALSE)>>, {}, {}, EmptyMap),
                                    <<key>>))
                 ELSE called(Reconcile(req, data, fault, timestamp, order, clusterID, key,
                                       backupScope, loadedResources,
                                       <<Call("load", "", FALSE)>>))

\* ---------------------------------------------------------------- the inputs
\* spec of a composed resource: absent, or deletionPolicy and managementPolicies.
NoSpec == [has |-> FALSE, deletionPolicy |-> "", managementPolicies |-> {}]
SpecOf(deletionPolicy, managementPolicies) ==
  [has |-> TRUE, deletionPolicy |-> deletionPolicy, managementPolicies |-> managementPolicies]
OrphanAll == SpecOf(DeletionPolicyOrphan, {"*"})
DeleteAll == SpecOf(DeletionPolicyDelete, {"*"})
DeleteObserveOnly == SpecOf(DeletionPolicyDelete, {"Create", "Update", "Observe"})
DesiredSpecs == {NoSpec, OrphanAll, DeleteAll, DeleteObserveOnly}
ObservedSpecs == {NoSpec, OrphanAll, DeleteAll}

\* The value the pipeline and the provider give (FirstName), against the other
\* values a store or a tracking annotation may hold from earlier.
FirstName == NameOf[1]

\* A composed resource.  A tracking value comes with the timestamp annotation
\* an earlier invocation wrote beside it.
ResourceOf(spec, name, externalName, storedExternalName, storedResourceName) ==
  [ spec |-> spec, name |-> name,
    annotations |->
      [a \in AnnotationKeys |->
         CASE a = ExternalNameAnnotation -> externalName
           [] a = StoredExternalNameAnnotation -> storedExternalName
           [] a = ExternalNameStoredAnnotation ->
                IF storedExternalName # "" THEN OldTimestamp ELSE ""
           [] a = StoredResourceNameAnnotation -> storedResourceName
           [] a = ResourceNameStoredAnnotation ->
                IF storedResourceName # "" THEN OldTimestamp ELSE ""
           [] OTHER -> ""] ]

DesiredResources ==
  { ResourceOf(s, n, e, t, "") :
      s \in DesiredSpecs, n \in {"", FirstName}, e \in {"", FirstName}, t \in {"", FirstName} }

\* The observed copies that can go with a desired resource: the observed spec is
\* read only when the desired copy has none, so it varies only then.  A tracking
\* value is compared with the identity value only when that one is there, so
\* the stale tracking values are tried beside an external name.
ObservedResources(specs) ==
  { ResourceOf(s[1], s[2], s[3], s[4], s[5]) :
      s \in { q \in specs \X {"", FirstName} \X {"", FirstName} \X ({""} \cup Names)
                      \X {"", FirstName} :
                /\ q[2] = "" => q[5] = ""
                /\ q[3] = "" => q[4] \in {"", FirstName} } }

\* The "bucket" resource of a request: <<desired, observed>> maps.
BucketInputs ==
  LET one(r) == [k \in {"bucket"} |-> r]
  IN  { <<EmptyMap, one(o)>> : o \in ObservedResources(ObservedSpecs) }
      \cup { <<one(d), EmptyMap>> : d \in DesiredResources }
      \cup UNION { { <<one(d), one(o)>> :
                       o \in ObservedResources(IF d.spec.has THEN {d.spec} ELSE ObservedSpecs) } :
                   d \in DesiredResources }

\* Requests with two desired resources, "bucket" and "db": <<desired, observed>>
\* maps.  db is new, has its identity values already, or is tracked and
\* delete-eligible; bucket is observed or not.
TwoMemberInputs ==
  LET both(b, d) == [k \in ResourceKeys |-> IF k = "bucket" THEN b ELSE d]
      one(r) == [k \in {"bucket"} |-> r]
      buckets == { ResourceOf(s, "", e, "", "") :
                     s \in {NoSpec, OrphanAll, DeleteAll}, e \in {"", FirstName} }
      dbs == { ResourceOf(OrphanAll, "", "", "", ""),
               ResourceOf(OrphanAll, FirstName, FirstName, "", ""),
               ResourceOf(DeleteAll, "", "", FirstName, "") }
  IN  { <<both(b, d), o>> :
          b \in buckets, d \in dbs,
          o \in { EmptyMap, one(ResourceOf(OrphanAll, FirstName, FirstName, "", "")) } }

\* The composite (XR): its annotations and the fields the composition key is made of.
CompositeOf(annotations) ==
  [ annotations |-> [a \in XRAnnotationKeys |->
                       IF a \in DOMAIN annotations THEN annotations[a] ELSE ""],
    apiVersion |-> "example.io/v1alpha1", kind |-> "XExample", name |-> "test-xr",
    namespace |-> "", claimNamespace |-> "default", claimName |-> "test-claim" ]

XRAnnotations(enable, purge, restoreOnly, backupScope) ==
  [a \in { EnableExternalStoreAnnotation, PurgeExternalStoreAnnotation,
           RequireRestoreAnnotation, BackupScopeAnnotation, StoreTypeAnnotation } |->
     CASE a = EnableExternalStoreAnnotation -> enable
       [] a = PurgeExternalStoreAnnotation -> purge
       [] a = RequireRestoreAnnotation -> restoreOnly
       [] a = BackupScopeAnnotation -> backupScope
       [] a = StoreTypeAnnotation -> "mock"]

\* The composites of a request: <<desired composite, observed composite>>.
CompositeInputs ==
  LET none == CompositeOf(EmptyMap)
  IN  \* the XR carries the annotations; the desired composite of the pipeline has none
      { <<none, CompositeOf(XRAnnotations("true", "", r, s))>> :
          r \in {"", "true"}, s \in {"", BackupScopeAll} }
      \cup { <<none, CompositeOf(XRAnnotations("true", "", "", "everything"))>>,
             <<none, CompositeOf(XRAnnotations("true", "true", "", ""))>>,
             \* not enabled
             <<none, CompositeOf(XRAnnotations("", "", "", ""))>>,
             \* the purge annotation alone, as the README shows it
             <<none, CompositeOf([a \in {PurgeExternalStoreAnnotation} |-> "true"])>>,
             <<CompositeOf(XRAnnotations("no", "true", "", "")),
               CompositeOf(XRAnnotations("false", "", "true", BackupScopeAll))>>,
             \* enabled by the desired composite only
             <<CompositeOf(XRAnnotations("yes", "", "", "")), none>>,
             <<CompositeOf(XRAnnotations("", "1", "", "")),
               CompositeOf(XRAnnotations("1", "", "", ""))>> }

\* The material of req.GetCredentials()["aws-creds"]: json is the outcome of
\* json.Unmarshal on its "credentials" entry, lines the entry read line by line.
Credentials(present, json, lines) == [present |-> present, json |-> json, lines |-> lines]
InvalidJSON == [valid |-> FALSE, value |-> EmptyMap]
JSONObject(value) == [valid |-> TRUE, value |-> value]
NoCredentials == Credentials(FALSE, InvalidJSON, <<>>)

RequestOf(composites, resources) ==
  [ desired |-> [composite |-> composites[1], resources |-> resources[1]],
    observed |-> [composite |-> composites[2], resources |-> resources[2]],
    credentials |-> NoCredentials ]

\* The resources tried with the composites that do not reach the load (not
\* enabled, or purging): those without tracking annotations.
GateInputs ==
  { b \in BucketInputs \cup TwoMemberInputs :
      \A i \in 1..2 : \A rn \in DOMAIN b[i] :
        /\ getAnnotationValue(b[i][rn], StoredExternalNameAnnotation) = ""
        /\ getAnnotationValue(b[i][rn], StoredResourceNameAnnotation) = "" }

\* The composites whose requests reach the load.
ReconcilingComposites ==
  { c \in CompositeInputs :
      LET request == RequestOf(c, <<EmptyMap, EmptyMap>>)
      IN  shouldEnableExternalStore(request) /\ ~shouldPurgeExternalStore(request) }

Requests ==
  { RequestOf(c, b) : c \in ReconcilingComposites, b \in BucketInputs \cup TwoMemberInputs }
    \cup { RequestOf(c, b) : c \in CompositeInputs \ ReconcilingComposites, b \in GateInputs }

\* The faults tried with a request: every store error for the requests of the
\* plain backup/restore configurations, none for the others.
FaultsFor(request) ==
  IF /\ request.desired.composite = CompositeOf(EmptyMap)
     /\ getAnnotationValue(request.observed.composite, RequireRestoreAnnotation) = ""
     /\ getAnnotationValue(request.observed.composite, BackupScopeAnnotation) \in {"", BackupScopeAll}
     /\ shouldEnableExternalStore(request)
    THEN IF shouldPurgeExternalStore(request) THEN {"none", "purge"} ELSE Faults
    ELSE {"none"}

\* The iteration orders of the desired resources of a request.
RECURSIVE OrdersOf(_)
OrdersOf(s) ==
  IF s = {} THEN { <<>> }
  ELSE UNION { { <<x>> \o t : t \in OrdersOf(s \ {x}) } : x \in s }

\* The record sets a composition can have in the store before an invocation.
StoredData ==
  { ResourceData(e, r) : e \in {""} \cup Names, r \in {"", NameOf[NumNames]} }
    \ { ResourceData("", "") }
OtherData == ResourceData(NameOf[NumNames], "")
InitialRecordSets ==
  { [k \in {"bucket"} |-> b] : b \in StoredData }
  \cup { [k \in ResourceKeys |-> IF k = "bucket" THEN b ELSE OtherData] :
           b \in { d \in StoredData : d.ExternalName = NameOf[NumNames] } }
  \cup { [k \in {"db"} |-> OtherData], EmptyMap }

TestClusterID == "default"
TestKey == <<"default", "test-claim", "example.io/v1alpha1", "XExample", "test-xr">>

\* The stores an invocation can start from: nothing ever saved, or one record set.
InitialStores ==
  { EmptyMap } \cup
  { [c \in {TestClusterID} |-> [k \in {TestKey} |-> rs]] : rs \in InitialRecordSets }

\* ---------------------------------------------------------------- the state machine
VARIABLES
  data,    \* the store: clusterID -> compositionKey -> resourceKey -> ResourceData
  pc,      \* "idle" before the first invocation, "done" after an invocation
  round,   \* how many invocations have run
  req,     \* the request of the last invocation, as it was received
  fault,   \* the store call that failed in the last invocation
  rsp,     \* what the last invocation returned (Response)
  pre,     \* the store before the last invocation
  first    \* what the first invocation returned

\* The stores exercised on their own, through the ResourceStore interface.
VARIABLES
  backend,     \* the store type in use: "mock", "k8sconfigmap" or "awsdynamodb"
  configMaps,  \* the ConfigMaps of the store's namespace, as the API server holds them
  dynamo,      \* the DynamoDB table and the copy a read may be served from
  hist,        \* the store calls made so far, each with what it returned
  held,        \* the map the last Load returned, in the caller's hands
  procs,       \* the store calls in flight against the ConfigMaps, step by step
  before       \* the ConfigMaps before the calls in flight began

storeVars == <<backend, configMaps, dynamo, hist, held, procs, before>>

vars == <<data, pc, round, req, fault, rsp, pre, first,
          backend, configMaps, dynamo, hist, held, procs, before>>

\* No store is exercised on its own.
StoreIdle ==
  /\ backend = "mock"
  /\ configMaps = NoConfigMaps
  /\ dynamo = NoTable
  /\ hist = <<>>
  /\ held = EmptyMap
  /\ procs = EmptyMap
  /\ before = NoConfigMaps

NoRequest == RequestOf(<<CompositeOf(EmptyMap), CompositeOf(EmptyMap)>>, <<EmptyMap, EmptyMap>>)
NoResponse == Response(EmptyMap, EmptyMap, "", <<>>, {}, {}, EmptyMap)

Init ==
  /\ data \in InitialStores
  /\ pc = "idle"
  /\ round = 0
  /\ req = NoRequest
  /\ fault = "none"
  /\ rsp = NoResponse
  /\ pre = EmptyMap
  /\ first = NoResponse
  /\ StoreIdle

\* One invocation of RunFunction on a request of the pipeline.  A fault is
\* tried only where the invocation issues the call that fails.
Invoke ==
  /\ pc = "idle"
  /\ \E r \in Requests :
       \E f \in FaultsFor(r) :
         \E order \in OrdersOf(DOMAIN r.desired.resources) :
           LET out == RunFunction(r, data, f, NowTimestamp, order)
           IN  /\ f # "none" => \E i \in 1..Len(out.calls) : out.calls[i].err
               /\ req' = r
               /\ fault' = f
               /\ rsp' = out
               /\ first' = out
               /\ data' = out.data
  /\ pre' = data
  /\ pc' = "done"
  /\ round' = 1
  /\ UNCHANGED storeVars

\* A second invocation with the identical request (desired and observed state
\* as in the first) and no store error, after a first one without store error.
InvokeAgain ==
  /\ pc = "done"
  /\ round = 1
  /\ fault = "none"
  /\ \E order \in OrdersOf(DOMAIN req.desired.resources) :
       LET out == RunFunction(req, data, "none", NowTimestamp, order)
       IN  /\ rsp' = out
           /\ data' = out.data
  /\ pre' = data
  /\ round' = 2
  /\ UNCHANGED <<pc, req, fault, first>>
  /\ UNCHANGED storeVars

Next == Invoke \/ InvokeAgain

Spec == Init /\ [][Next]_vars

\* ---------------------------------------------------------------- composition keys
\* A composite with the given key fields (labels crossplane.io/claim-namespace
\* and crossplane.io/claim-name, metadata.namespace, kind).
CompositeWith(annotations, kind, namespace, claimNamespace, claimName) ==
  [ CompositeOf(annotations) EXCEPT !.kind = kind, !.namespace = namespace,
                                    !.claimNamespace = claimNamespace,
                                    !.claimName = claimName ]

\* An override annotation on the composites: <<desired value, observed value>>.
OverridePairs(old, older) == { <<"", "">>, <<old, "">>, <<"", old>>, <<old, older>> }

\* kind 1 restores or captures, kind 2 purges.
KeyAnnotations(purge, overrideKind, overrideNamespace, enable) ==
  [a \in { EnableExternalStoreAnnotation, PurgeExternalStoreAnnotation, StoreTypeAnnotation,
           OverrideKindAnnotation, OverrideNamespaceAnnotation } |->
     CASE a = EnableExternalStoreAnnotation -> enable
       [] a = PurgeExternalStoreAnnotation -> purge
       [] a = StoreTypeAnnotation -> "mock"
       [] a = OverrideKindAnnotation -> overrideKind
       [] a = OverrideNamespaceAnnotation -> overrideNamespace]

\* The requests of the key derivation: the observed composite with or without
\* claim labels and namespace, the override annotations on either composite, and
\* a desired composite whose own key fields differ from the observed ones.  The
\* bucket is to be restored (no observed copy) or to be captured.
KeyRequests ==
  { RequestOf(
      << CompositeWith(KeyAnnotations("", ok[1], on[1], ""), "XDesired", "desired-ns",
                       "desired-ns", "desired-claim"),
         CompositeWith(KeyAnnotations(purge, ok[2], on[2], "true"), "XExample", ns, cns, cn) >>,
      b) :
      ok \in OverridePairs("XOld", "XOlder"), on \in OverridePairs("old-ns", "older-ns"),
      ns \in {"", "team-a"}, cns \in {"", "default"}, cn \in {"", "test-claim"},
      purge \in {"", "true"},
      b \in { << [k \in {"bucket"} |-> ResourceOf(OrphanAll, "", "", "", "")], EmptyMap >>,
              << [k \in {"bucket"} |-> ResourceOf(OrphanAll, "", "", "", "")],
                 [k \in {"bucket"} |-> ResourceOf(OrphanAll, "", FirstName, "", "")] >> } }

\* The keys a store of the key derivation may hold a record set under.
KeyCandidates ==
  { <<ns, cn, "example.io/v1alpha1", kind, "test-xr">> :
      ns \in {"default", "team-a", "none", "old-ns", "older-ns", "desired-ns"},
      cn \in {"test-claim", "none", "desired-claim"},
      kind \in {"XExample", "XOld", "XOlder", "XDesired"} }

\* Stores with one record set, under one of the candidate keys.
KeyStores ==
  { [c \in {TestClusterID} |->
       [k \in {key} |-> [r \in {"bucket"} |-> ResourceData(NameOf[NumNames], "")]]] :
      key \in KeyCandidates }

KeyInit ==
  /\ data \in KeyStores
  /\ pc = "idle"
  /\ round = 0
  /\ req = NoRequest
  /\ fault = "none"
  /\ rsp = NoResponse
  /\ pre = EmptyMap
  /\ first = NoResponse
  /\ StoreIdle

\* One invocation of RunFunction on a request of the key derivation.
InvokeKeyed ==
  /\ pc = "idle"
  /\ \E r \in KeyRequests :
       LET out == RunFunction(r, data, "none", NowTimestamp, <<"bucket">>)
       IN  /\ req' = r
           /\ rsp' = out
           /\ first' = out
           /\ data' = out.data
  /\ pre' = data
  /\ pc' = "done"
  /\ round' = 1
  /\ UNCHANGED fault
  /\ UNCHANGED storeVars

KeyNext == InvokeKeyed

KeySpec == KeyInit /\ [][KeyNext]_vars

\* ---------------------------------------------------------------- backup scope
\* The values of spec.managementPolicies tried (no list and an empty list are {}).
ManagementPolicySets ==
  { {}, {"*"}, {"Delete"}, {"Create", "Update", "Observe"}, {"Observe", "Delete"} }

\* The specs of a composed resource: none, or any combination of the policy fields.
PolicySpecs ==
  {NoSpec} \cup { SpecOf(deletionPolicy, managementPolicies) :
                    deletionPolicy \in {"", DeletionPolicyDelete, DeletionPolicyOrphan},
                    managementPolicies \in ManagementPolicySets }

\* The requests of the scope check: an enabled XR in backup mode, and a bucket
\* with no tracking annotations that is to be restored (desired only) or to be
\* captured (observed with a fresh external name, with or without a desired copy).
ScopeRequests ==
  { RequestOf(<<CompositeOf(EmptyMap), CompositeOf(XRAnnotations("true", "", "", scope))>>, b) :
      scope \in {"", BackupScopeOrphaned, BackupScopeAll},
      b \in UNION { { << [k \in {"bucket"} |-> ResourceOf(s, "", "", "", "")], EmptyMap >>,
                      << [k \in {"bucket"} |-> ResourceOf(s, "", "", "", "")],
                         [k \in {"bucket"} |-> ResourceOf(s, "", FirstName, "", "")] >>,
                      << EmptyMap, [k \in {"bucket"} |-> ResourceOf(s, "", FirstName, "", "")] >> } :
                    s \in PolicySpecs } }

\* The stores of the scope check: nothing saved, or an external name for the bucket.
ScopeStores ==
  { EmptyMap,
    [c \in {TestClusterID} |->
       [k \in {TestKey} |-> [r \in {"bucket"} |-> ResourceData(NameOf[NumNames], "")]]] }

ScopeInit ==
  /\ data \in ScopeStores
  /\ pc = "idle"
  /\ round = 0
  /\ req = NoRequest
  /\ fault = "none"
  /\ rsp = NoResponse
  /\ pre = EmptyMap
  /\ first = NoResponse
  /\ StoreIdle

\* One invocation of RunFunction on a request of the scope check.
InvokeScoped ==
  /\ pc = "idle"
  /\ \E r \in ScopeRequests :
       \E order \in OrdersOf(DOMAIN r.desired.resources) :
         LET out == RunFunction(r, data, "none", NowTimestamp, order)
         IN  /\ req' = r
             /\ rsp' = out
             /\ first' = out
             /\ data' = out.data
  /\ pre' = data
  /\ pc' = "done"
  /\ round' = 1
  /\ UNCHANGED fault
  /\ UNCHANGED storeVars

ScopeNext == InvokeScoped

ScopeSpec == ScopeInit /\ [][ScopeNext]_vars

\* ---------------------------------------------------------------- configuration
\* A configuration annotation on the composites: <<desired value, observed value>>.
ClusterIDPairs == OverridePairs("cluster-a", "cluster-b")
StoreTypePairs ==
  { <<d, o>> : d \in {"", "mock", "redis"}, o \in {"", "awsdynamodb", "k8sconfigmap", "etcd"} }
BackupScopePairs ==
  OverridePairs(BackupScopeAll, BackupScopeOrphaned)
    \cup { <<BackupScopeOrphaned, BackupScopeAll>> }

ConfigAnnotations(enable, clusterID, storeType, backupScope) ==
  [a \in { EnableExternalStoreAnnotation, ClusterIDAnnotation, StoreTypeAnnotation,
           BackupScopeAnnotation } |->
     CASE a = EnableExternalStoreAnnotation -> enable
       [] a = ClusterIDAnnotation -> clusterID
       [] a = StoreTypeAnnotation -> storeType
       [] a = BackupScopeAnnotation -> backupScope]

\* Credential material that both parsers reject: text that is neither, an INI
\* file without a [default] section, with one key only, or with an empty value.
MalformedCredentials ==
  { Credentials(TRUE, InvalidJSON, << <<"text">> >>),
    Credentials(TRUE, InvalidJSON,
                << <<"section", "production">>, <<"pair", "aws_access_key_id", "AKIA">>,
                   <<"pair", "aws_secret_access_key", "secret">> >>),
    Credentials(TRUE, InvalidJSON,
                << <<"section", "default">>, <<"pair", "aws_access_key_id", "AKIA">> >>),
    Credentials(TRUE, InvalidJSON,
                << <<"section", "default">>, <<"pair", "aws_access_key_id", "AKIA">>,
                   <<"pair", "aws_secret_access_key", "">> >>) }

\* Credential material that parses: none, a JSON object, JSON null, an INI file
\* with both keys in its [default] section.
WellFormedCredentials ==
  { NoCredentials,
    Credentials(TRUE, JSONObject([k \in {"accessKeyId", "secretAccessKey"} |->
                                    IF k = "accessKeyId" THEN "AKIA" ELSE "secret"]),
                << <<"text">> >>),
    Credentials(TRUE, JSONObject(EmptyMap), << <<"text">> >>),
    Credentials(TRUE, InvalidJSON,
                << <<"comment">>, <<"section", "default">>,
                   <<"pair", "aws_access_key_id", "AKIA">>, <<"blank">>,
                   <<"pair", "aws_secret_access_key", "secret">>,
                   <<"section", "production">>, <<"pair", "aws_access_key_id", "">> >>) }

\* A JSON object that lacks a required field: it parses, and the store's
\* constructor rejects it.
IncompleteCredentials ==
  Credentials(TRUE, JSONObject([k \in {"accessKeyId"} |-> "AKIA"]), << <<"text">> >>)

\* The requests of the configuration: the three annotations on either composite,
\* credential material, and a delete-eligible bucket whose observed external
\* name is captured under scope all only.
ConfigRequests ==
  { [ RequestOf(
        << CompositeOf(ConfigAnnotations("", c[1], t[1], s[1])),
           CompositeOf(ConfigAnnotations("true", c[2], t[2], s[2])) >>,
        << [k \in {"bucket"} |-> ResourceOf(DeleteAll, "", "", "", "")],
           [k \in {"bucket"} |-> ResourceOf(DeleteAll, "", FirstName, "", "")] >>)
      EXCEPT !.credentials = m ] :
      c \in ClusterIDPairs, t \in StoreTypePairs, s \in BackupScopePairs,
      m \in MalformedCredentials \cup WellFormedCredentials \cup {IncompleteCredentials} }

\* The stores of the configuration: records of the composition under the
\* default cluster id, or nothing.
ConfigStores ==
  { EmptyMap,
    [c \in {TestClusterID} |->
       [k \in {TestKey} |-> [r \in {"db"} |-> ResourceData(NameOf[NumNames], "")]]] }

ConfigInit ==
  /\ data \in ConfigStores
  /\ pc = "idle"
  /\ round = 0
  /\ req = NoRequest
  /\ fault = "none"
  /\ rsp = NoResponse
  /\ pre = EmptyMap
  /\ first = NoResponse
  /\ StoreIdle

\* One invocation of RunFunction on a request of the configuration; the
\* constructor of the store may fail.
InvokeConfigured ==
  /\ pc = "idle"
  /\ \E r \in ConfigRequests :
       \E f \in {"none", "init"} :
         LET out == RunFunction(r, data, f, NowTimestamp, <<"bucket">>)
         IN  /\ req' = r
             /\ fault' = f
             /\ rsp' = out
             /\ first' = out
             /\ data' = out.data
  /\ pre' = data
  /\ pc' = "done"
  /\ round' = 1
  /\ UNCHANGED storeVars

ConfigNext == InvokeConfigured

ConfigSpec == ConfigInit /\ [][ConfigNext]_vars

\* ---------------------------------------------------------------- repeated invocations
MaxRounds == 3

\* The observed resources of the next invocation: name and spec as observed,
\* the annotations those of the desired member the last invocation returned.
NextObserved(request, response) ==
  [rn \in DOMAIN request.observed.resources |->
     [request.observed.resources[rn] EXCEPT !.annotations = response.desired[rn].annotations]]

\* The pipeline can run again on the same composite with nothing changed but
\* the annotations it was handed back: every observed member was returned as a
\* desired member, and its external name is the one observed.
Settled(request, response) ==
  /\ response.fatal = ""
  /\ \A rn \in DOMAIN request.observed.resources :
       /\ rn \in DOMAIN response.desired
       /\ getAnnotationValue(response.desired[rn], ExternalNameAnnotation)
            = getAnnotationValue(request.observed.resources[rn], ExternalNameAnnotation)

\* A further invocation for the same composite: the same desired input, the
\* observed members carrying the annotations returned last time, no store error.
Reinvoke ==
  /\ pc = "done"
  /\ round < MaxRounds
  /\ fault = "none"
  /\ Settled(req, rsp)
  /\ \E order \in OrdersOf(DOMAIN req.desired.resources) :
       LET again == [req EXCEPT !.observed.resources = NextObserved(req, rsp)]
           out == RunFunction(again, data, "none", NowTimestamp, order)
       IN  /\ req' = again
           /\ rsp' = out
           /\ data' = out.data
  /\ pre' = data
  /\ round' = round + 1
  /\ UNCHANGED <<pc, fault, first>>
  /\ UNCHANGED storeVars

ConvergeNext == Invoke \/ Reinvoke

ConvergeSpec == Init /\ [][ConvergeNext]_vars

\* ---------------------------------------------------------------- the retire check
\* The requests of the retire check: an enabled XR, a desired bucket of any
\* spec with or without the stored-external-name annotation, and no observed
\* bucket or one with an external name, with or without the annotation; the
\* observed spec is read only when the desired bucket has none.
RetireRequests ==
  { RequestOf(<<CompositeOf(EmptyMap), CompositeOf(XRAnnotations("true", "", r, scope))>>, b) :
      r \in {"", "true"}, scope \in {"", BackupScopeAll},
      b \in UNION { { << [k \in {"bucket"} |-> ResourceOf(sd, "", "", td, "")], EmptyMap >> }
                    \cup { << [k \in {"bucket"} |-> ResourceOf(sd, "", "", td, "")],
                              [k \in {"bucket"} |-> ResourceOf(so, "", FirstName, to, "")] >> :
                             so \in (IF sd.has THEN {NoSpec, DeleteAll} ELSE PolicySpecs),
                             to \in {"", FirstName} } :
                    sd \in PolicySpecs, td \in {"", FirstName} } }

\* One invocation of RunFunction on a request of the retire check; the
\* deleteResource call may fail.
InvokeRetiring ==
  /\ pc = "idle"
  /\ \E r \in RetireRequests :
       \E f \in {"none", "delete"} :
         LET out == RunFunction(r, data, f, NowTimestamp, <<"bucket">>)
         IN  /\ req' = r
             /\ fault' = f
             /\ rsp' = out
             /\ first' = out
             /\ data' = out.data
  /\ pre' = data
  /\ pc' = "done"
  /\ round' = 1
  /\ UNCHANGED storeVars

RetireNext == InvokeRetiring

RetireSpec == ScopeInit /\ [][RetireNext]_vars

\* ---------------------------------------------------------------- sequences of invocations
MaxInvocations == 3

\* The composites of an invocation in a mode (normal, purge, require-restore)
\* under a backup scope: <<desired composite, observed composite>>.
ModeComposites ==
  { << CompositeOf(EmptyMap),
       CompositeOf(XRAnnotations("true", IF m = "purge" THEN "true" ELSE "",
                                 IF m = "require-restore" THEN "true" ELSE "", scope)) >> :
      m \in {"normal", "purge", "require-restore"}, scope \in {"", BackupScopeAll} }

\* What the cluster shows of the returned desired resources at the next
\* invocation: each observed resource with the annotations of the desired
\* resource returned last (the provider's external name stays when the
\* returned resource has none and kept is set); with appeared, the desired
\* resources that were not observed yet are observed too.
ObservedAfter(request, response, kept, appeared) ==
  LET observed == request.observed.resources
      carried(rn) ==
        [a \in AnnotationKeys |->
           IF /\ a = ExternalNameAnnotation /\ kept /\ rn \in DOMAIN observed
              /\ response.desired[rn].annotations[a] = ""
             THEN observed[rn].annotations[a]
             ELSE response.desired[rn].annotations[a]]
  IN  [rn \in DOMAIN observed \cup (IF appeared THEN DOMAIN response.desired ELSE {}) |->
         IF rn \notin DOMAIN response.desired THEN observed[rn]
         ELSE IF rn \in DOMAIN observed
           THEN [observed[rn] EXCEPT !.annotations = carried(rn)]
           ELSE [response.desired[rn] EXCEPT !.annotations = carried(rn)]]

\* The resources a sequence begins with, none with a tracking annotation: a
\* desired bucket that is kept or deleted with its composite, not observed yet
\* or observed with the identity values the provider gave it.
SequenceInputs ==
  { << [k \in {"bucket"} |-> ResourceOf(s, "", "", "", "")], o >> :
      s \in {OrphanAll, DeleteAll},
      o \in { EmptyMap } \cup
            { [k \in {"bucket"} |-> ResourceOf(NoSpec, n, FirstName, "", "")] : n \in {"", FirstName} } }

\* The first invocation for a composite: an empty store, resources without
\* tracking annotations, any mode.
Begin ==
  /\ pc = "idle"
  /\ \E c \in ModeComposites : \E b \in SequenceInputs :
       \E order \in OrdersOf(DOMAIN b[1]) :
         LET r == RequestOf(c, b)
             out == RunFunction(r, data, "none", NowTimestamp, order)
         IN  /\ req' = r
             /\ rsp' = out
             /\ first' = out
             /\ data' = out.data
  /\ pre' = data
  /\ pc' = "done"
  /\ round' = 1
  /\ UNCHANGED fault
  /\ UNCHANGED storeVars

\* The desired resources of the pipeline with the policies of each set anew.
Respecified(resources) ==
  { [rn \in DOMAIN resources |-> [resources[rn] EXCEPT !.spec = specs[rn]]] :
      specs \in [DOMAIN resources -> {OrphanAll, DeleteAll}] }

\* A further invocation after a successful one, in any mode: the desired
\* resources of the pipeline, their policies possibly changed, and observed
\* either what the cluster shows of the last response or nothing (the
\* resources are gone and the composite is being rebuilt).
Continue ==
  /\ pc = "done"
  /\ round < MaxInvocations
  /\ rsp.fatal = ""
  /\ \E c \in ModeComposites :
       \E o \in { ObservedAfter(req, rsp, kept, appeared) : kept, appeared \in BOOLEAN }
                  \cup { EmptyMap } :
         \E d \in Respecified(req.desired.resources) : \E order \in OrdersOf(DOMAIN d) :
           LET r == RequestOf(c, <<d, o>>)
               out == RunFunction(r, data, "none", NowTimestamp, order)
           IN  /\ req' = r
               /\ rsp' = out
               /\ data' = out.data
  /\ pre' = data
  /\ round' = round + 1
  /\ UNCHANGED <<pc, fault, first>>
  /\ UNCHANGED storeVars

SequenceInit ==
  /\ data = EmptyMap
  /\ pc = "idle"
  /\ round = 0
  /\ req = NoRequest
  /\ fault = "none"
  /\ rsp = NoResponse
  /\ pre = EmptyMap
  /\ first = NoResponse
  /\ StoreIdle

SequenceNext == Begin \/ Continue

SequenceSpec == SequenceInit /\ [][SequenceNext]_vars

\* ---------------------------------------------------------------- the stores on their own
\* Store calls per run of a store on its own.
MaxOps == 3

Backends == {"mock", "k8sconfigmap", "awsdynamodb"}

OtherClusterID == "other-cluster"
OtherKey == <<"default", "test-claim", "example.io/v1alpha1", "XExample", "other-xr">>

\* The compositions the calls address: two keys of one cluster and one key of
\* another cluster.
StorePairs == { <<TestClusterID, TestKey>>, <<TestClusterID, OtherKey>>,
                <<OtherClusterID, TestKey>> }

\* The record sets that are saved: none, one or two entries, and an entry with
\* neither field set.
SaveSets ==
  { EmptyMap,
    [r \in {"bucket"} |-> ResourceData(FirstName, "")],
    [r \in {"bucket", "db"} |->
       IF r = "bucket" THEN ResourceData(FirstName, NameOf[NumNames])
       ELSE ResourceData("", NameOf[NumNames])],
    [r \in {"db"} |-> ResourceData("", "")] }

\* What a backend has persisted for a composition.
PersistedRecords(b, mockData, api, db, clusterID, key) ==
  IF b = "mock" THEN StoreLoad(mockData, clusterID, key)
  ELSE IF b = "k8sconfigmap" THEN ConfigMapStoreLoad(api, clusterID, key)
  ELSE DynamoDBStoreLoad(db.table, clusterID, key)

StoreView(b, mockData, api, db) ==
  [ck \in StorePairs |-> PersistedRecords(b, mockData, api, db, ck[1], ck[2])]

\* The outcome of store.Save, store.DeleteResource and store.Purge on the
\* backend in use.
saved(clusterID, key, resources) ==
  IF backend = "mock"
    THEN [data |-> StoreSave(data, clusterID, key, resources),
          api |-> configMaps, db |-> dynamo, err |-> FALSE]
  ELSE IF backend = "k8sconfigmap"
    THEN LET out == ConfigMapStoreSave(configMaps, clusterID, key, resources)
         IN  [data |-> data, api |-> out.api, db |-> dynamo, err |-> out.err]
  ELSE LET out == DynamoDBStoreSave(dynamo, clusterID, key, resources)
       IN  [data |-> data, api |-> configMaps, db |-> out.db, err |-> out.err]

deleted(clusterID, key, resourceKey) ==
  IF backend = "mock"
    THEN [data |-> StoreDeleteResource(data, clusterID, key, resourceKey),
          api |-> configMaps, db |-> dynamo, err |-> FALSE]
  ELSE IF backend = "k8sconfigmap"
    THEN LET out == ConfigMapStoreDeleteResource(configMaps, clusterID, key,
                                                 resourceKey)
         IN  [data |-> data, api |-> out.api, db |-> dynamo, err |-> out.err]
  ELSE LET out == DynamoDBStoreDeleteResource(dynamo, clusterID, key, resourceKey)
       IN  [data |-> data, api |-> configMaps, db |-> out.db, err |-> out.err]

purged(clusterID, key) ==
  IF backend = "mock"
    THEN [data |-> StorePurge(data, clusterID, key),
          api |-> configMaps, db |-> dynamo, err |-> FALSE]
  ELSE IF backend = "k8sconfigmap"
    THEN LET out == ConfigMapStorePurge(configMaps, clusterID, key)
         IN  [data |-> data, api |-> out.api, db |-> dynamo, err |-> out.err]
  ELSE LET out == DynamoDBStorePurge(dynamo, clusterID, key)
       IN  [data |-> data, api |-> configMaps, db |-> out.db, err |-> out.err]

\* A store call as the history keeps it: what was asked, what came back, and
\* what the backend had persisted before and after it.
StoreCall(op, ck, resourceKey, resources, result, err, viewBefore, viewAfter) ==
  [ op |-> op, clusterID |-> ck[1], compositionKey |-> ck[2], resourceKey |-> resourceKey,
    resources |-> resources, result |-> result, err |-> err,
    before |-> viewBefore, after |-> viewAfter ]

\* A write call returns: the backend is as the call left it.
Written(op, ck, resourceKey, resources, out) ==
  /\ data' = out.data
  /\ configMaps' = out.api
  /\ dynamo' = out.db
  /\ hist' = Append(hist, StoreCall(op, ck, resourceKey, resources, EmptyMap, out.err,
                                    StoreView(backend, data, configMaps, dynamo),
                                    StoreView(backend, out.data, out.api, out.db)))
  /\ UNCHANGED <<pc, round, req, fault, rsp, pre, first, backend, held, procs, before>>

StoreInit ==
  /\ backend \in Backends
  /\ data = EmptyMap
  /\ configMaps = NoConfigMaps
  /\ dynamo = NoTable
  /\ hist = <<>>
  /\ held = EmptyMap
  /\ procs = EmptyMap
  /\ before = NoConfigMaps
  /\ pc = "idle"
  /\ round = 0
  /\ req = NoRequest
  /\ fault = "none"
  /\ rsp = NoResponse
  /\ pre = EmptyMap
  /\ first = NoResponse

Save ==
  /\ Len(hist) < MaxOps
  /\ \E ck \in StorePairs : \E resources \in SaveSets :
       Written("save", ck, "", resources, saved(ck[1], ck[2], resources))

\* Load returns a map of its own.  A DynamoDB read is served by the table or
\* by the copy.
Load ==
  /\ Len(hist) < MaxOps
  /\ \E ck \in StorePairs :
       \E node \in IF backend = "awsdynamodb" THEN {dynamo.table, dynamo.replica} ELSE {EmptyMap} :
         LET result == IF backend = "awsdynamodb" THEN DynamoDBStoreLoad(node, ck[1], ck[2])
                       ELSE PersistedRecords(backend, data, configMaps, dynamo, ck[1], ck[2])
             view == StoreView(backend, data, configMaps, dynamo)
         IN  /\ held' = result
             /\ hist' = Append(hist, StoreCall("load", ck, "", EmptyMap, result, FALSE,
                                               view, view))
  /\ UNCHANGED <<data, pc, round, req, fault, rsp, pre, first, backend, configMaps, dynamo,
                 procs, before>>

DeleteResource ==
  /\ Len(hist) < MaxOps
  /\ \E ck \in StorePairs : \E resourceKey \in ResourceKeys :
       Written("deleteResource", ck, resourceKey, EmptyMap, deleted(ck[1], ck[2], resourceKey))

Purge ==
  /\ Len(hist) < MaxOps
  /\ \E ck \in StorePairs : Written("purge", ck, "", EmptyMap, purged(ck[1], ck[2]))

\* The caller changes the map that Load gave it.
MutateHeld ==
  /\ Len(hist) < MaxOps
  /\ Len(hist) > 0 /\ hist[Len(hist)].op = "load"
  /\ \E resourceKey \in ResourceKeys :
       held' = IF resourceKey \in DOMAIN held
                 THEN MapDel(held, resourceKey)
                 ELSE MapSet(held, resourceKey, ResourceData(NameOf[NumNames], ""))
  /\ hist' = Append(hist, StoreCall("mutate", <<hist[Len(hist)].clusterID,
                                                 hist[Len(hist)].compositionKey>>,
                                    "", EmptyMap, EmptyMap, FALSE,
                                    StoreView(backend, data, configMaps, dynamo),
                                    StoreView(backend, data, configMaps, dynamo)))
  /\ UNCHANGED <<data, pc, round, req, fault, rsp, pre, first, backend, configMaps, dynamo,
                 procs, before>>

\* The copy catches up with the table.
Replicate ==
  /\ backend = "awsdynamodb"
  /\ dynamo.replica # dynamo.table
  /\ dynamo' = [dynamo EXCEPT !.replica = dynamo.table]
  /\ UNCHANGED <<data, pc, round, req, fault, rsp, pre, first, backend, configMaps, hist,
                 held, procs, before>>

StoreNext == Save \/ Load \/ DeleteResource \/ Purge \/ MutateHeld \/ Replicate

StoreSpec == StoreInit /\ [][StoreNext]_vars

\* ---------------------------------------------------------------- concurrent ConfigMap calls
\* Two invocations served at once, for two compositions of one cluster id: each
\* makes one store call, and the requests of the two calls to the API server
\* interleave.
Callers == {1, 2}
KeyOfCaller(p) == IF p = 1 THEN TestKey ELSE OtherKey

\* The record sets in play: one entry, and two entries.
OneEntry == [r \in {"bucket"} |-> ResourceData(FirstName, "")]
TwoEntries ==
  [r \in {"bucket", "db"} |->
     IF r = "bucket" THEN ResourceData(FirstName, "") ELSE ResourceData("", NameOf[NumNames])]

\* The ConfigMaps the calls start from: none, or the one of the cluster id with
\* the record set of either composition or of both.
InitialConfigMaps ==
  LET first1 == ConfigMapStoreSave(NoConfigMaps, TestClusterID, TestKey, TwoEntries).api
      first2 == ConfigMapStoreSave(NoConfigMaps, TestClusterID, OtherKey, OneEntry).api
  IN  { NoConfigMaps, first1, first2,
        ConfigMapStoreSave(first1, TestClusterID, OtherKey, OneEntry).api }

\* A store call in flight: the operation, its arguments, the request to the API
\* server it is about to make, the ConfigMap its Get returned, and its outcome.
Caller(op, resourceKey, resources, step, configMap, err) ==
  [ op |-> op, resourceKey |-> resourceKey, resources |-> resources, step |-> step,
    configMap |-> configMap, err |-> err ]

NotCalling == Caller("", "", EmptyMap, "idle", ConfigMap(EmptyMap, 0), FALSE)

ConfigMapInit ==
  /\ backend = "k8sconfigmap"
  /\ configMaps \in InitialConfigMaps
  /\ before = configMaps
  /\ procs = [p \in Callers |-> NotCalling]
  /\ data = EmptyMap
  /\ dynamo = NoTable
  /\ hist = <<>>
  /\ held = EmptyMap
  /\ pc = "idle"
  /\ round = 0
  /\ req = NoRequest
  /\ fault = "none"
  /\ rsp = NoResponse
  /\ pre = EmptyMap
  /\ first = NoResponse

Stepped(p, caller) ==
  /\ procs' = [procs EXCEPT ![p] = caller]
  /\ UNCHANGED <<data, pc, round, req, fault, rsp, pre, first, backend, dynamo, hist, held,
                 before>>

\* An invocation enters Save, Purge or DeleteResource for its own composition.
EnterCall ==
  \E p \in Callers :
    /\ procs[p].step = "idle"
    /\ \/ \E resources \in {OneEntry, TwoEntries} :
            Stepped(p, Caller("save", "", resources, "get", NotCalling.configMap, FALSE))
       \/ Stepped(p, Caller("purge", "", EmptyMap, "get", NotCalling.configMap, FALSE))
       \/ \E resourceKey \in ResourceKeys :
            Stepped(p, Caller("deleteResource", resourceKey, EmptyMap, "load",
                              NotCalling.configMap, FALSE))
    /\ UNCHANGED configMaps

\* DeleteResource loads the record set, deletes the entry and goes on as a
\* Purge when nothing is left, as a Save of the rest otherwise.
LoadForDelete ==
  \E p \in Callers :
    /\ procs[p].step = "load"
    /\ LET got == ConfigMapsGet(configMaps, getConfigMapName(TestClusterID))
           resources == MapDel(loadedFrom(got, encodeKey(KeyOfCaller(p))),
                               procs[p].resourceKey)
       IN  Stepped(p, [procs[p] EXCEPT !.resources = resources, !.step = "get"])
    /\ UNCHANGED configMaps

\* The call goes on as a Purge: it is one, or a DeleteResource left with nothing.
Purging(caller) ==
  caller.op = "purge" \/ (caller.op = "deleteResource" /\ DOMAIN caller.resources = {})

\* The Get of Save and of Purge, and what the call decides to send next.
GetConfigMap ==
  \E p \in Callers :
    /\ procs[p].step = "get"
    /\ LET got == ConfigMapsGet(configMaps, getConfigMapName(TestClusterID))
           encodedKey == encodeKey(KeyOfCaller(p))
       IN  IF Purging(procs[p])
             THEN IF ~got.found
                    THEN Stepped(p, [procs[p] EXCEPT !.step = "done"])
                    ELSE LET configMap == withoutEntry(got.configMap, encodedKey)
                         IN  Stepped(p, [procs[p] EXCEPT
                                           !.configMap = configMap,
                                           !.step = IF DOMAIN configMap.Data = {}
                                                      THEN "delete" ELSE "update"])
             ELSE IF ~got.found
                    THEN Stepped(p, [procs[p] EXCEPT !.step = "create"])
                    ELSE Stepped(p, [procs[p] EXCEPT
                                       !.configMap = withEntry(got.configMap, encodedKey,
                                                               jsonMarshal(procs[p].resources)),
                                       !.step = "update"])
    /\ UNCHANGED configMaps

Returned(p, out) ==
  /\ configMaps' = out.api
  /\ Stepped(p, [procs[p] EXCEPT !.step = "done", !.err = out.err])

CreateConfigMap ==
  \E p \in Callers :
    /\ procs[p].step = "create"
    /\ Returned(p, ConfigMapsCreate(configMaps, getConfigMapName(TestClusterID),
                                    [e \in {encodeKey(KeyOfCaller(p))} |->
                                       jsonMarshal(procs[p].resources)]))

UpdateConfigMap ==
  \E p \in Callers :
    /\ procs[p].step = "update"
    /\ Returned(p, ConfigMapsUpdate(configMaps, getConfigMapName(TestClusterID),
                                    procs[p].configMap))

DeleteConfigMap ==
  \E p \in Callers :
    /\ procs[p].step = "delete"
    /\ Returned(p, ConfigMapsDelete(configMaps, getConfigMapName(TestClusterID)))

ConfigMapNext ==
  EnterCall \/ LoadForDelete \/ GetConfigMap \/ CreateConfigMap \/ UpdateConfigMap
    \/ DeleteConfigMap

ConfigMapSpec == ConfigMapInit /\ [][ConfigMapNext]_vars

\* ---------------------------------------------------------------- reading a state
\* The persisted record set of the composition of the last request, in a store.
RecordsIn(store) ==
  StoreLoad(store, getConfigFromAnnotations(req).ClusterID, compositionKey(req))

\* The composition of the last request has an entry in the store (a record
\* set, empty or not).
CompositionIn(store) ==
  /\ getConfigFromAnnotations(req).ClusterID \in DOMAIN store
  /\ compositionKey(req) \in DOMAIN store[getConfigFromAnnotations(req).ClusterID]

CallsOf(response, op) == { i \in 1..Len(response.calls) : response.calls[i].op = op }

\* The last invocation passed the gate and went into load/retire/restore/capture.
Reconciled == pc = "done" /\ shouldEnableExternalStore(req) /\ ~shouldPurgeExternalStore(req)

Succeeded == rsp.fatal = ""

BackupScopeOf(request) == getConfigFromAnnotations(request).BackupScope

\* The observed copy of a resource of the request carries no such annotation
\* (or there is no observed copy).
ObservedLacks(rn, annotation) ==
  rn \in DOMAIN req.observed.resources =>
    getAnnotationValue(req.observed.resources[rn], annotation) = ""

\* The retire phase issued a deleteResource for the resource and it succeeded.
Retired(rn) ==
  \E i \in CallsOf(rsp, "deleteResource") : rsp.calls[i].arg = rn /\ ~rsp.calls[i].err

\* ---------------------------------------------------------------- C1
\* The case of C1: a record with an external name is persisted under a desired
\* resource that is eligible under the backup scope and has no external name on
\* its desired or observed copy.
RestoreCase(rn) ==
  /\ Reconciled
  /\ rn \in DOMAIN req.desired.resources
  /\ rn \in DOMAIN RecordsIn(pre)
  /\ RecordsIn(pre)[rn].ExternalName # ""
  /\ shouldProcessResource(req.desired.resources[rn], BackupScopeOf(req))
  /\ getAnnotationValue(req.desired.resources[rn], ExternalNameAnnotation) = ""
  /\ ObservedLacks(rn, ExternalNameAnnotation)

RestoredFromRecord(rn) ==
  /\ getAnnotationValue(rsp.desired[rn], ExternalNameAnnotation) = RecordsIn(pre)[rn].ExternalName
  /\ getAnnotationValue(rsp.desired[rn], ExternalNameRestoredAnnotation) # ""

\* C1 as stated: in the restore case, after a successful invocation the desired
\* resource carries the stored external name and a restoration timestamp, and
\* the persisted record is unchanged.
C1_Original ==
  \A rn \in ResourceKeys :
    RestoreCase(rn) /\ Succeeded =>
      /\ RestoredFromRecord(rn)
      /\ rn \in DOMAIN RecordsIn(data)
      /\ RecordsIn(data)[rn] = RecordsIn(pre)[rn]

\* C1 amended: in the restore case, when the resource is not one the retire
\* phase deletes from the store, after a successful invocation the desired
\* resource carries the stored external name and a restoration timestamp, and
\* the record still holds that external name (the capture phase may add or
\* change its resourceName).
C1_Restore ==
  \A rn \in ResourceKeys :
    RestoreCase(rn) /\ Succeeded /\ rn \notin RetiringResources(req) =>
      /\ RestoredFromRecord(rn)
      /\ rn \in DOMAIN RecordsIn(data)
      /\ RecordsIn(data)[rn].ExternalName = RecordsIn(pre)[rn].ExternalName

C1_Witness ==
  /\ RestoreCase("bucket") /\ Succeeded /\ "bucket" \notin RetiringResources(req)
  /\ "bucket" \in rsp.restoredExternalName
  /\ BackupScopeOf(req) = BackupScopeOrphaned
  /\ RecordsIn(pre)["bucket"].ExternalName = NameOf[NumNames]

\* ---------------------------------------------------------------- C2
\* The copy of a resource whose spec the scope is judged on: the desired one
\* when the resource is in desired, the observed one otherwise.
ScopeJudged(rn) ==
  IF rn \in DOMAIN req.desired.resources THEN req.desired.resources[rn]
  ELSE req.observed.resources[rn]

ObservedExternalName(rn) ==
  getAnnotationValue(req.observed.resources[rn], ExternalNameAnnotation)

\* The observed resource has an external name that differs from the tracked one.
FreshExternalName(rn) ==
  /\ rn \in DOMAIN req.observed.resources
  /\ ObservedExternalName(rn) # ""
  /\ ObservedExternalName(rn) #
       getAnnotationValue(req.observed.resources[rn], StoredExternalNameAnnotation)

\* The case of C2: a successful invocation in backup mode, and an observed
\* resource with a fresh external name that is eligible under the scope.
CaptureCase(rn) ==
  /\ Reconciled /\ ~shouldRequireRestore(req) /\ Succeeded
  /\ FreshExternalName(rn)
  /\ shouldProcessResource(ScopeJudged(rn), BackupScopeOf(req))

ReceivedValues(rn, annotation) ==
  { getAnnotationValue(req.desired.resources[rn], annotation) }
  \cup (IF rn \in DOMAIN req.observed.resources
          THEN { getAnnotationValue(req.observed.resources[rn], annotation) } ELSE {})

ReceivedNames(rn) ==
  { getMetadataName(req.desired.resources[rn]) }
  \cup (IF rn \in DOMAIN req.observed.resources
          THEN { getMetadataName(req.observed.resources[rn]) } ELSE {})

\* C3: when the desired resource, or failing that the observed one, has an
\* external name (respectively a metadata.name), the invocation restores none:
\* the returned external name is one the request carried, the returned
\* metadata.name is the desired one, and no restoration timestamp of this
\* invocation is stamped for that field.
C3_NoOverwrite ==
  pc = "done" =>
    \A rn \in DOMAIN req.desired.resources :
      /\ ReceivedValues(rn, ExternalNameAnnotation) # {""} =>
           /\ rn \notin rsp.restoredExternalName
           /\ getAnnotationValue(rsp.desired[rn], ExternalNameAnnotation)
                \in ReceivedValues(rn, ExternalNameAnnotation)
           /\ getAnnotationValue(rsp.desired[rn], ExternalNameRestoredAnnotation) # NowTimestamp
      /\ ReceivedNames(rn) # {""} =>
           /\ rn \notin rsp.restoredResourceName
           /\ getMetadataName(rsp.desired[rn]) = getMetadataName(req.desired.resources[rn])
           /\ getAnnotationValue(rsp.desired[rn], ResourceNameRestoredAnnotation) # NowTimestamp

\* The restore phase reaches a resource whose identity values are on the
\* observed copy only, while the store holds other values for both fields.
C3_Witness ==
  /\ Reconciled /\ Succeeded /\ BackupScopeOf(req) = BackupScopeAll
  /\ "bucket" \in DOMAIN req.desired.resources
  /\ "bucket" \notin RetiringResources(req)
  /\ getAnnotationValue(req.desired.resources["bucket"], ExternalNameAnnotation) = ""
  /\ getMetadataName(req.desired.resources["bucket"]) = ""
  /\ ReceivedValues("bucket", ExternalNameAnnotation) # {""}
  /\ ReceivedNames("bucket") # {""}
  /\ "bucket" \in DOMAIN RecordsIn(pre)
  /\ RecordsIn(pre)["bucket"].ExternalName
       \notin {""} \cup ReceivedValues("bucket", ExternalNameAnnotation)
  /\ RecordsIn(pre)["bucket"].ResourceName \notin {""} \cup ReceivedNames("bucket")

\* ---------------------------------------------------------------- C4
\* C4 as stated: after a second invocation with the identical request the store
\* is as the first invocation left it, and the second invocation issued no save.
C4_Original ==
  round = 2 => data = pre /\ CallsOf(rsp, "save") = {}

\* C4 amended: after a second invocation with the identical request the store is
\* as the first invocation left it, and the second invocation issued a save
\* exactly when the first one did.
C4_Idempotent ==
  round = 2 => data = pre /\ (CallsOf(rsp, "save") = {} <=> CallsOf(first, "save") = {})

\* Both invocations saved, and the second save merged into a record that the
\* first one had changed.
C4_Witness ==
  /\ round = 2 /\ CallsOf(rsp, "save") # {} /\ CallsOf(first, "save") # {}
  /\ "bucket" \in DOMAIN RecordsIn(first.data)
  /\ "bucket" \in DOMAIN RecordsIn(data)
  /\ RecordsIn(data)["bucket"].ExternalName = FirstName
  /\ RecordsIn(data)["bucket"].ResourceName = NameOf[NumNames]

\* ---------------------------------------------------------------- C5
EnableValues(request) ==
  { getAnnotationValue(request.desired.composite, EnableExternalStoreAnnotation),
    getAnnotationValue(request.observed.composite, EnableExternalStoreAnnotation) }

DeleteEligible(resource) ==
  /\ resource.spec.has
  /\ resource.spec.deletionPolicy = "Delete"
  /\ resource.spec.managementPolicies \cap {"*", "Delete"} # {}

\* The external name the store held for a resource before the invocation.
ExternalNameBefore(rn) ==
  IF rn \in DOMAIN RecordsIn(pre) THEN RecordsIn(pre)[rn].ExternalName ELSE ""

C7_RetirementRemovesRecord ==
  Reconciled /\ fault = "none" =>
    \A rn \in DOMAIN RecordsIn(pre) :
      rn \in RetiringResources(req) => rn \notin DOMAIN RecordsIn(data)

\* ---------------------------------------------------------------- C8
\* C8 as stated: after an invocation without store error whose deleteResource
\* for a resource succeeded, the returned desired resource carries neither stored-external-name
\* nor external-name-stored, and external-name-deleted is the invocation's timestamp.
C8_RetirementClearsDesired ==
  Reconciled /\ fault = "none" =>
    \A rn \in DOMAIN req.desired.resources :
      Retired(rn) =>
        /\ getAnnotationValue(rsp.desired[rn], StoredExternalNameAnnotation) = ""
        /\ getAnnotationValue(rsp.desired[rn], ExternalNameStoredAnnotation) = ""
        /\ getAnnotationValue(rsp.desired[rn], ExternalNameDeletedAnnotation) = NowTimestamp

\* ---------------------------------------------------------------- C9
\* C9 as stated: after an invocation without store error that retires every
\* resource the composition had a record for, the store has no entry for the
\* composition.
C9_EmptyCompositionPurged ==
  ( /\ Reconciled /\ fault = "none"
    /\ RecordsIn(pre) # EmptyMap
    /\ \A rn \in DOMAIN RecordsIn(pre) : Retired(rn) ) =>
    ~CompositionIn(data)

\* ---------------------------------------------------------------- C10
RequireRestoreSet(request) ==
  "true" \in { getAnnotationValue(request.observed.composite, RequireRestoreAnnotation),
               getAnnotationValue(request.desired.composite, RequireRestoreAnnotation) }

\* C10: an enabled, non-purge invocation with the require-restore annotation
\* "true" and no persisted record for the composition key returns a fatal result
\* and issues no save.
C10_RequireRestoreSafety ==
  Reconciled /\ RequireRestoreSet(req) /\ RecordsIn(pre) = EmptyMap =>
    /\ rsp.fatal # ""
    /\ CallsOf(rsp, "save") = {}

\* Nothing is persisted for the key, the load succeeds, and there is an
\* external name the backup mode would have saved.
C10_Witness ==
  /\ Reconciled /\ RequireRestoreSet(req) /\ RecordsIn(pre) = EmptyMap
  /\ CallsOf(rsp, "load") # {} /\ \A i \in CallsOf(rsp, "load") : ~rsp.calls[i].err
  /\ FreshExternalName("bucket")
  /\ BackupScopeOf(req) = BackupScopeAll
  /\ rsp.fatal # ""
  /\ data = pre

\* ---------------------------------------------------------------- C11
\* The desired resources of the request without a persisted record.
WithoutRecord == { rn \in DOMAIN req.desired.resources : rn \notin DOMAIN RecordsIn(pre) }

\* The records the restore phase looks resources up in: the loaded ones less
\* those the retire phase deleted.
RemainingRecords ==
  [rn \in { k \in DOMAIN RecordsIn(pre) : ~Retired(k) } |-> RecordsIn(pre)[rn]]

\* The case of C11: a require-restore invocation whose load succeeded, with a
\* desired resource that has no persisted record.
RequireRestoreMissing ==
  /\ Reconciled /\ RequireRestoreSet(req)
  /\ CallsOf(rsp, "load") # {} /\ \A i \in CallsOf(rsp, "load") : ~rsp.calls[i].err
  /\ WithoutRecord # {}

IneligibleSpec(resource) == ~resource.spec.has \/ DeleteEligible(resource)

\* The case of C12: a successful require-restore invocation under scope
\* orphaned, and an ineligible desired resource that has a record and no
\* external name on either copy.
BypassCase(rn) ==
  /\ Reconciled /\ RequireRestoreSet(req) /\ Succeeded
  /\ BackupScopeOf(req) = BackupScopeOrphaned
  /\ rn \in DOMAIN req.desired.resources
  /\ IneligibleSpec(req.desired.resources[rn])
  /\ rn \in DOMAIN RecordsIn(pre)
  /\ ReceivedValues(rn, ExternalNameAnnotation) = {""}

OverrideOf(annotation) ==
  IF getAnnotationValue(req.desired.composite, annotation) # ""
    THEN getAnnotationValue(req.desired.composite, annotation)
    ELSE getAnnotationValue(req.observed.composite, annotation)

Overridden == OverrideOf(OverrideKindAnnotation) # "" \/ OverrideOf(OverrideNamespaceAnnotation) # ""

\* The namespace and claim-name segments as the labels and the namespace of the
\* observed composite give them.
OwnNamespace ==
  IF req.observed.composite.claimNamespace # "" THEN req.observed.composite.claimNamespace
  ELSE IF req.observed.composite.namespace # "" THEN req.observed.composite.namespace
  ELSE "none"

OwnClaimName ==
  IF req.observed.composite.claimName # "" THEN req.observed.composite.claimName ELSE "none"

OwnKey ==
  << OwnNamespace, OwnClaimName, req.observed.composite.apiVersion,
     req.observed.composite.kind, req.observed.composite.name >>

OverriddenKey ==
  << IF OverrideOf(OverrideNamespaceAnnotation) # ""
       THEN OverrideOf(OverrideNamespaceAnnotation) ELSE OwnNamespace,
     OwnClaimName, req.observed.composite.apiVersion,
     IF OverrideOf(OverrideKindAnnotation) # ""
       THEN OverrideOf(OverrideKindAnnotation) ELSE req.observed.composite.kind,
     req.observed.composite.name >>

PurgeRequested == getAnnotationValue(req.observed.composite, PurgeExternalStoreAnnotation) = "true"

\* The bucket was restored from the record set found under the key (and left
\* without an external name when there was none under it).
RestoredFrom(key) ==
  getAnnotationValue(rsp.desired["bucket"], ExternalNameAnnotation) =
    IF key \in DOMAIN pre[TestClusterID]
      THEN pre[TestClusterID][key]["bucket"].ExternalName ELSE ""

\* Every store call of the last invocation went to the key: the calls are
\* addressed to it, the record sets under every other key are as before, a
\* purge removed the key's record set, a restore read it and a capture wrote it.
KeyUsed(key) ==
  /\ rsp.target = <<TestClusterID, key>>
  /\ \A k \in (DOMAIN pre[TestClusterID] \cup DOMAIN data[TestClusterID]) \ {key} :
       /\ k \in DOMAIN pre[TestClusterID] /\ k \in DOMAIN data[TestClusterID]
       /\ data[TestClusterID][k] = pre[TestClusterID][k]
  /\ PurgeRequested => key \notin DOMAIN data[TestClusterID]
  /\ ~PurgeRequested /\ "bucket" \notin DOMAIN req.observed.resources => RestoredFrom(key)
  /\ ~PurgeRequested /\ "bucket" \in DOMAIN req.observed.resources =>
       /\ key \in DOMAIN data[TestClusterID]
       /\ data[TestClusterID][key]["bucket"].ExternalName =
            getAnnotationValue(req.observed.resources["bucket"], ExternalNameAnnotation)

\* C13: when override-kind and/or override-namespace is set on the composite,
\* every store call of the invocation (the load used for restoration, the
\* save, the purge) uses the composition key with the override segment(s).
C13_KeyOverride == pc = "done" /\ Overridden => KeyUsed(OverriddenKey)

\* Both overrides are set, the store holds a record set under the overridden
\* key only, and the bucket was restored from it.
C13_Witness ==
  /\ pc = "done" /\ ~PurgeRequested
  /\ OverrideOf(OverrideKindAnnotation) # "" /\ OverrideOf(OverrideNamespaceAnnotation) # ""
  /\ "bucket" \notin DOMAIN req.observed.resources
  /\ OverriddenKey \in DOMAIN pre[TestClusterID]
  /\ getAnnotationValue(rsp.desired["bucket"], ExternalNameAnnotation) = NameOf[NumNames]

\* C14: without overrides the key is namespace/claimName/apiVersion/kind/name,
\* with apiVersion, kind and name of the observed composite, claimName the
\* claim-name label or "none", and namespace the claim-namespace label, else
\* metadata.namespace, else "none".
C14_KeyDerivation == pc = "done" /\ ~Overridden => KeyUsed(OwnKey)

\* A composite with a namespace and a claim-namespace label, a record set
\* under the key of the label, and the bucket restored from it.
C14_Witness ==
  /\ pc = "done" /\ ~PurgeRequested /\ ~Overridden
  /\ req.observed.composite.claimNamespace # "" /\ req.observed.composite.namespace # ""
  /\ "bucket" \notin DOMAIN req.observed.resources
  /\ OwnKey \in DOMAIN pre[TestClusterID]
  /\ getAnnotationValue(rsp.desired["bucket"], ExternalNameAnnotation) = NameOf[NumNames]

\* A composite without claim labels and without a namespace: the segments
\* default to "none".
C14_WitnessNone ==
  /\ pc = "done" /\ ~PurgeRequested /\ ~Overridden
  /\ OwnKey[1] = "none" /\ OwnKey[2] = "none"
  /\ "bucket" \notin DOMAIN req.observed.resources
  /\ OwnKey \in DOMAIN pre[TestClusterID]
  /\ getAnnotationValue(rsp.desired["bucket"], ExternalNameAnnotation) = NameOf[NumNames]

\* ------------------------------------------------------------------ C15
PurgeValues(request) ==
  { getAnnotationValue(request.desired.composite, PurgeExternalStoreAnnotation),
    getAnnotationValue(request.observed.composite, PurgeExternalStoreAnnotation) }

\* The last invocation was enabled and one of its composites carries the purge
\* annotation.
PurgeCase ==
  /\ pc = "done"
  /\ EnableValues(req) \cap {"true", "yes", "1"} # {}
  /\ PurgeValues(req) \cap {"true", "yes", "1"} # {}

C16_PurgeAnnotation ==
  pc = "done" /\ fault = "none" /\ "true" \in PurgeValues(req) => ~CompositionIn(data)

\* The XR carries the purge annotation and nothing else, the store holds
\* records of the composition, and they are still there after the invocation.
C16_PurgeAloneKeepsData ==
  /\ pc = "done" /\ fault = "none"
  /\ \A a \in DOMAIN req.observed.composite.annotations :
       getAnnotationValue(req.observed.composite, a) =
         IF a = PurgeExternalStoreAnnotation THEN "true" ELSE ""
  /\ RecordsIn(pre) # EmptyMap
  /\ RecordsIn(data) = RecordsIn(pre)
  /\ rsp.calls = <<>> /\ rsp.fatal = ""

\* ------------------------------------------------------------------ C17
SameComposition(i, j) ==
  hist[i].clusterID = hist[j].clusterID /\ hist[i].compositionKey = hist[j].compositionKey

\* Before call i nothing was saved for its cluster and key.
NeverSaved(i) == \A j \in 1..(i - 1) : ~(hist[j].op = "save" /\ SameComposition(i, j))

\* Before call i the composition was purged, and not saved again since.
PurgedBefore(i) ==
  \E j \in 1..(i - 1) :
    /\ hist[j].op = "purge" /\ SameComposition(i, j) /\ ~hist[j].err
    /\ \A m \in (j + 1)..(i - 1) : ~(hist[m].op = "save" /\ SameComposition(i, m))

\* C17: on every backend a load returns an empty record set and no error when
\* nothing was ever saved for the cluster or key, or when the data was purged.
C17_LoadOnAbsence ==
  \A i \in 1..Len(hist) :
    hist[i].op = "load" /\ (NeverSaved(i) \/ PurgedBefore(i)) =>
      hist[i].result = EmptyMap /\ ~hist[i].err

\* The same of the backends whose reads are served by the store of record.
C17_LoadOnAbsenceConsistentRead == backend # "awsdynamodb" => C17_LoadOnAbsence

\* A DynamoDB load after a purge that returned, served the records the purge
\* deleted.
C17_StaleAfterPurge ==
  /\ backend = "awsdynamodb" /\ Len(hist) = 3
  /\ hist[1].op = "save" /\ hist[2].op = "purge" /\ hist[3].op = "load"
  /\ SameComposition(1, 2) /\ SameComposition(2, 3)
  /\ hist[3].result = hist[1].resources /\ hist[3].result # EmptyMap

\* ------------------------------------------------------------------ C18
\* C18: on every backend a load that follows a successful save of R for the
\* same cluster and key returns exactly R; the save leaves R as the whole
\* record set of the key; and changing the map a load returned changes nothing
\* that is stored.
C18_RoundTrip ==
  \A i \in 1..Len(hist) :
    /\ hist[i].op = "save" /\ ~hist[i].err =>
         /\ hist[i].after[<<hist[i].clusterID, hist[i].compositionKey>>] = hist[i].resources
         /\ i < Len(hist) /\ hist[i + 1].op = "load" /\ SameComposition(i, i + 1) =>
              hist[i + 1].result = hist[i].resources /\ ~hist[i + 1].err
    /\ hist[i].op = "mutate" => hist[i].after = hist[i].before

\* The same of the backends whose reads are served by the store of record.
C18_RoundTripConsistentRead == backend # "awsdynamodb" => C18_RoundTrip

\* A DynamoDB load right after a save of two entries over one, served the
\* record set of the earlier save.
C18_StaleAfterSave ==
  /\ backend = "awsdynamodb" /\ Len(hist) = 3
  /\ hist[1].op = "save" /\ hist[2].op = "save" /\ hist[3].op = "load"
  /\ SameComposition(1, 2) /\ SameComposition(2, 3)
  /\ ~hist[2].err
  /\ hist[3].result = hist[1].resources /\ hist[3].result # hist[2].resources

\* ------------------------------------------------------------------ C19
CompositionOf(i) == <<hist[i].clusterID, hist[i].compositionKey>>

\* C19: on every backend deleteResource and purge return no error; they leave
\* every persisted record set as it was when the entry (for purge: the
\* composition) is already absent; deleteResource removes entry r of key k and
\* nothing else, purge the record set of key k and nothing else; and the same
\* call made twice in a row leaves what the first one left.
C19_DeletionIdempotent ==
  \A i \in 1..Len(hist) :
    /\ hist[i].op = "deleteResource" =>
         /\ ~hist[i].err
         /\ hist[i].resourceKey \notin DOMAIN hist[i].before[CompositionOf(i)] =>
              hist[i].after = hist[i].before
         /\ hist[i].after =
              [hist[i].before EXCEPT ![CompositionOf(i)] = MapDel(@, hist[i].resourceKey)]
    /\ hist[i].op = "purge" =>
         /\ ~hist[i].err
         /\ hist[i].before[CompositionOf(i)] = EmptyMap => hist[i].after = hist[i].before
         /\ hist[i].after = [hist[i].before EXCEPT ![CompositionOf(i)] = EmptyMap]
    /\ /\ i < Len(hist) /\ hist[i].op \in {"deleteResource", "purge"}
       /\ hist[i + 1].op = hist[i].op /\ SameComposition(i, i + 1)
       /\ hist[i + 1].resourceKey = hist[i].resourceKey
       => ~hist[i + 1].err /\ hist[i + 1].after = hist[i].after

\* On DynamoDB, one of two saved entries is deleted twice in a row: the other
\* entry is still there and neither call failed.
C19_Witness ==
  /\ backend = "awsdynamodb" /\ Len(hist) = 3
  /\ hist[1].op = "save" /\ DOMAIN hist[1].resources = {"bucket", "db"}
  /\ hist[2].op = "deleteResource" /\ hist[2].resourceKey = "bucket"
  /\ hist[3].op = "deleteResource" /\ hist[3].resourceKey = "bucket"
  /\ SameComposition(1, 2) /\ SameComposition(2, 3)
  /\ DOMAIN hist[3].after[CompositionOf(3)] = {"db"}
  /\ ~hist[2].err /\ ~hist[3].err

\* On the ConfigMap backend, the last entry of a composition is deleted while
\* another composition shares the ConfigMap, and the purge is repeated.
C19_WitnessConfigMap ==
  /\ backend = "k8sconfigmap" /\ Len(hist) = 3
  /\ hist[1].op = "save" /\ hist[2].op = "save" /\ ~SameComposition(1, 2)
  /\ hist[1].clusterID = hist[2].clusterID
  /\ DOMAIN hist[1].resources = {"db"} /\ hist[2].resources # EmptyMap
  /\ hist[3].op = "deleteResource" /\ hist[3].resourceKey = "db" /\ SameComposition(1, 3)
  /\ hist[3].after[CompositionOf(3)] = EmptyMap
  /\ hist[3].after[CompositionOf(2)] = hist[2].resources

\* ------------------------------------------------------------------ C20
AllReturned == \A p \in Callers : procs[p].step = "done"

\* The record set the call of p leaves for its composition when it runs alone.
LeftAlone(p) ==
  IF procs[p].op = "save" THEN procs[p].resources
  ELSE IF procs[p].op = "purge" THEN EmptyMap
  ELSE MapDel(ConfigMapStoreLoad(before, TestClusterID, KeyOfCaller(p)), procs[p].resourceKey)

\* C20: for two invocations on different keys of one cluster id, with the
\* ConfigMap backend, no interleaving of the steps of their save,
\* deleteResource and purge calls makes a call fail, or leaves for a key
\* another record set than the call on that key leaves by itself.
C20_NoInterference ==
  AllReturned =>
    \A p \in Callers :
      /\ ~procs[p].err
      /\ ConfigMapStoreLoad(configMaps, TestClusterID, KeyOfCaller(p)) = LeftAlone(p)

\* A save fails on the other key's update: both read the ConfigMap, the other
\* call wrote first.
C20_CallFails ==
  /\ AllReturned
  /\ procs[1].op = "save" /\ procs[1].err
  /\ procs[2].op = "save" /\ ~procs[2].err

\* No call fails, and the record set that the save of the other key wrote is
\* gone: the purge deleted the ConfigMap it had read as holding its key only.
C20_RecordsLost ==
  /\ AllReturned
  /\ procs[1].op = "purge" /\ ~procs[1].err
  /\ procs[2].op = "save" /\ ~procs[2].err
  /\ ConfigMapStoreLoad(configMaps, TestClusterID, KeyOfCaller(2)) = EmptyMap

\* ---------------------------------------------------------------- C21
\* C21: whenever the invocation returns a fatal result, the desired resources
\* of the response are the desired resources of the request, with no change of
\* the retire, restore, capture or merge phases applied.
C21_NoPartialMutation ==
  pc = "done" /\ rsp.fatal # "" => rsp.desired = req.desired.resources

\* The save failed after the restore phase wrote the stored external name into
\* the desired resource: the fatal response carries it.
C21_RestoredThenSaveFailed ==
  /\ pc = "done" /\ rsp.fatal = "failed to save resource data to store"
  /\ "bucket" \in rsp.restoredExternalName
  /\ getAnnotationValue(req.desired.resources["bucket"], ExternalNameAnnotation) = ""
  /\ getAnnotationValue(rsp.desired["bucket"], ExternalNameAnnotation) # ""

\* The require-restore guard failed at one member after the restore phase wrote
\* into another.
C21_RestoredThenGuardFailed ==
  /\ pc = "done" /\ rsp.fatal = "require-restore: no data for resource"
  /\ rsp.restoredExternalName # {}
  /\ rsp.desired # req.desired.resources

\* The fatal results that come before the first pass leave the desired
\* resources as received.
C21_EarlyFatalUnchanged ==
  /\ pc = "done"
  /\ rsp.fatal \in { "unsupported external store type", "failed to purge external store",
                     "failed to load resource data from store",
                     "require-restore: no resource data found" }
  => rsp.desired = req.desired.resources

\* ---------------------------------------------------------------- C24
\* The record the store held under a resource key before the invocation, both
\* fields "" when it held none.
RecordBefore(rn) ==
  IF rn \in DOMAIN RecordsIn(pre) THEN RecordsIn(pre)[rn] ELSE ResourceData("", "")

\* What C24 asks of the record set a save is called with, for the members of
\* the batch other than those in exempt.
MergedPerField(saving, exempt) ==
  /\ \A rn \in DOMAIN rsp.batch \ exempt :
       /\ rn \in DOMAIN saving
       /\ rsp.batch[rn].ExternalName = "" =>
            saving[rn].ExternalName = RecordBefore(rn).ExternalName
       /\ rsp.batch[rn].ResourceName = "" =>
            saving[rn].ResourceName = RecordBefore(rn).ResourceName
  /\ \A rn \in DOMAIN RecordsIn(pre) \ DOMAIN rsp.batch :
       ~Retired(rn) => rn \in DOMAIN saving /\ saving[rn] = RecordsIn(pre)[rn]

\* C24: in every save, the record of a member whose capture carries
\* only one field keeps the other field as the store held it, and the records of
\* the keys that are not in the batch and were not retired are saved unchanged.
C24_PerFieldMergeOnSave ==
  pc = "done" =>
    \A i \in CallsOf(rsp, "save") : MergedPerField(rsp.calls[i].arg, {})

\* The same holds for the members whose record the retire phase did not delete
\* in this invocation, and a successful save leaves that record set in the
\* store.
C24_MergeOfKeptRecords ==
  pc = "done" =>
    \A i \in CallsOf(rsp, "save") :
      /\ MergedPerField(rsp.calls[i].arg, { rn \in ResourceKeys : Retired(rn) })
      /\ ~rsp.calls[i].err => RecordsIn(data) = rsp.calls[i].arg

\* A save whose batch has only the external name of "bucket": the record keeps
\* the resourceName the store held, and the record of "db" is saved as it was.
C24_KeepsResourceName ==
  /\ Reconciled /\ Succeeded /\ CallsOf(rsp, "save") # {}
  /\ DOMAIN rsp.batch = {"bucket"}
  /\ rsp.batch["bucket"].ResourceName = ""
  /\ RecordBefore("bucket").ResourceName # ""
  /\ RecordBefore("bucket").ExternalName \notin {"", rsp.batch["bucket"].ExternalName}
  /\ "db" \in DOMAIN RecordsIn(pre)
  /\ RecordsIn(data) = [rn \in ResourceKeys |->
                          IF rn = "bucket"
                            THEN ResourceData(rsp.batch["bucket"].ExternalName,
                                              RecordBefore("bucket").ResourceName)
                            ELSE RecordsIn(pre)["db"]]

\* A save whose batch has only the resourceName of "bucket": the record keeps
\* the external name the store held.
C24_KeepsExternalName ==
  /\ Reconciled /\ Succeeded /\ CallsOf(rsp, "save") # {}
  /\ "bucket" \in DOMAIN rsp.batch
  /\ rsp.batch["bucket"].ExternalName = ""
  /\ ~Retired("bucket")
  /\ RecordBefore("bucket").ExternalName # ""
  /\ RecordBefore("bucket").ResourceName \notin {"", rsp.batch["bucket"].ResourceName}
  /\ RecordsIn(data)["bucket"] = ResourceData(RecordBefore("bucket").ExternalName,
                                              rsp.batch["bucket"].ResourceName)

\* ---------------------------------------------------------------- C25
\* The observed resource has a metadata.name that differs from the tracked one.
FreshResourceName(rn) ==
  /\ rn \in DOMAIN req.observed.resources
  /\ getMetadataName(req.observed.resources[rn]) # ""
  /\ getMetadataName(req.observed.resources[rn]) #
       getAnnotationValue(req.observed.resources[rn], StoredResourceNameAnnotation)

\* C25: after a successful enabled invocation that is neither purge nor
\* require-restore, every observed resource with a fresh metadata.name has a
\* persisted record under its key with that name as resourceName, whatever the
\* backup scope and the resource's spec.
C25_ResourceNameBackup ==
  Reconciled /\ ~shouldRequireRestore(req) /\ Succeeded =>
    \A rn \in DOMAIN req.observed.resources :
      FreshResourceName(rn) =>
        /\ rn \in DOMAIN RecordsIn(data)
        /\ RecordsIn(data)[rn].ResourceName = getMetadataName(req.observed.resources[rn])

\* Under scope orphaned the name of a delete-eligible resource is persisted
\* while its fresh external name is not.
C25_Witness ==
  /\ Reconciled /\ ~shouldRequireRestore(req) /\ Succeeded
  /\ BackupScopeOf(req) = BackupScopeOrphaned
  /\ FreshResourceName("bucket") /\ FreshExternalName("bucket")
  /\ DeleteEligible(ScopeJudged("bucket"))
  /\ "bucket" \notin DOMAIN RecordsIn(pre)
  /\ RecordsIn(data)["bucket"] =
       ResourceData("", getMetadataName(req.observed.resources["bucket"]))

\* Under scope orphaned the name of a resource without spec is persisted.
C25_WitnessNoSpec ==
  /\ Reconciled /\ ~shouldRequireRestore(req) /\ Succeeded
  /\ BackupScopeOf(req) = BackupScopeOrphaned
  /\ FreshResourceName("bucket")
  /\ ~ScopeJudged("bucket").spec.has
  /\ RecordsIn(data)["bucket"].ResourceName = getMetadataName(req.observed.resources["bucket"])

\* ---------------------------------------------------------------- C26
\* The case of C26: backup mode, a record with a resourceName is persisted under
\* a desired resource that has no metadata.name on its desired or observed copy.
ResourceNameRestoreCase(rn) ==
  /\ Reconciled /\ ~shouldRequireRestore(req) /\ Succeeded
  /\ rn \in DOMAIN req.desired.resources
  /\ RecordBefore(rn).ResourceName # ""
  /\ ReceivedNames(rn) = {""}

\* C26: in that case the stored resourceName is written into the desired
\* resource, also when the resource is ineligible under backup scope orphaned.
C26_ResourceNameRestoredRegardlessOfScope ==
  \A rn \in ResourceKeys :
    ResourceNameRestoreCase(rn) /\ ~Retired(rn) =>
      getMetadataName(rsp.desired[rn]) = RecordBefore(rn).ResourceName

\* Under scope orphaned a resource without spec, which the retire pass leaves
\* alone, gets no metadata.name although the store holds one for it.
C26_IneligibleNotRestored ==
  /\ ResourceNameRestoreCase("bucket")
  /\ BackupScopeOf(req) = BackupScopeOrphaned
  /\ ~req.desired.resources["bucket"].spec.has
  /\ "bucket" \notin RetiringResources(req)
  /\ getMetadataName(rsp.desired["bucket"]) = ""
  /\ rsp.desired["bucket"] = req.desired.resources["bucket"]

\* For the resources the scope admits the stored resourceName is restored.
C26_EligibleRestored ==
  \A rn \in ResourceKeys :
    ( /\ ResourceNameRestoreCase(rn) /\ ~Retired(rn)
      /\ \/ BackupScopeOf(req) # BackupScopeOrphaned
         \/ req.desired.resources[rn].spec.deletionPolicy = DeletionPolicyOrphan
         \/ ( /\ req.desired.resources[rn].spec.has
              /\ req.desired.resources[rn].spec.managementPolicies \cap {"*", "Delete"} = {} ) )
    => /\ getMetadataName(rsp.desired[rn]) = RecordBefore(rn).ResourceName
       /\ rn \in rsp.restoredResourceName

\* ---------------------------------------------------------------- C27
\* The orphan criteria as C27 states them, for a resource with a spec.
OrphanCriteria(resource) ==
  \/ resource.spec.deletionPolicy = "Orphan"
  \/ resource.spec.managementPolicies \cap {"*", "Delete"} = {}

\* The stored external name was written into the desired resource.
ExternalNameRestored(rn) ==
  /\ rn \in rsp.restoredExternalName
  /\ getAnnotationValue(rsp.desired[rn], ExternalNameAnnotation) = ExternalNameBefore(rn)
  /\ getAnnotationValue(rsp.desired[rn], StoredExternalNameAnnotation) = ExternalNameBefore(rn)

\* The observed external name was saved into the record of the resource.
ExternalNameCaptured(rn) ==
  /\ rn \in DOMAIN rsp.batch /\ rsp.batch[rn].ExternalName = ObservedExternalName(rn)
  /\ rn \in DOMAIN RecordsIn(data)
  /\ RecordsIn(data)[rn].ExternalName = ObservedExternalName(rn)

\* Nothing was done for the external name of the resource: the desired copy has
\* none, and the record is as it was.
ExternalNameLeftAlone(rn) ==
  /\ rn \in DOMAIN rsp.desired =>
       /\ rn \notin rsp.restoredExternalName
       /\ getAnnotationValue(rsp.desired[rn], StoredExternalNameAnnotation) = ""
       /\ getAnnotationValue(rsp.desired[rn], ExternalNameAnnotation)
            \in ReceivedValues(rn, ExternalNameAnnotation)
  /\ \A i \in CallsOf(rsp, "save") :
       rn \in DOMAIN rsp.calls[i].arg =>
         rsp.calls[i].arg[rn].ExternalName = ExternalNameBefore(rn)
  /\ ExternalNameBefore(rn) # "" => RecordsIn(data)[rn].ExternalName = ExternalNameBefore(rn)

\* A resource of the request whose external name is there to restore.
ToRestore(rn) ==
  /\ rn \in DOMAIN req.desired.resources
  /\ ExternalNameBefore(rn) # ""
  /\ ReceivedValues(rn, ExternalNameAnnotation) = {""}

\* C27: under backup scope orphaned, in backup mode, a resource with a spec has
\* its external name restored and captured if and only if its deletionPolicy is
\* "Orphan" or its managementPolicies contain neither "*" nor "Delete".
C27_OrphanedEligibility ==
  pc = "done" /\ BackupScopeOf(req) = BackupScopeOrphaned =>
    \A rn \in (DOMAIN req.desired.resources) \cup (DOMAIN req.observed.resources) :
      ScopeJudged(rn).spec.has =>
        /\ ToRestore(rn) =>
             IF OrphanCriteria(ScopeJudged(rn)) THEN ExternalNameRestored(rn)
             ELSE ExternalNameLeftAlone(rn)
        /\ FreshExternalName(rn) =>
             IF OrphanCriteria(ScopeJudged(rn)) THEN ExternalNameCaptured(rn)
             ELSE ExternalNameLeftAlone(rn)

\* Orphan with ["*"] is processed: the stored external name is restored.
C27_Witness ==
  /\ pc = "done" /\ BackupScopeOf(req) = BackupScopeOrphaned
  /\ ToRestore("bucket")
  /\ req.desired.resources["bucket"].spec = SpecOf("Orphan", {"*"})
  /\ ExternalNameRestored("bucket")

\* Delete with ["Create", "Update", "Observe"] is processed: the observed
\* external name is captured.
C27_WitnessDeleteObserveOnly ==
  /\ pc = "done" /\ BackupScopeOf(req) = BackupScopeOrphaned
  /\ FreshExternalName("bucket")
  /\ ScopeJudged("bucket").spec = SpecOf("Delete", {"Create", "Update", "Observe"})
  /\ ExternalNameCaptured("bucket")

\* Delete with ["*"] is not processed: neither restored nor captured.
C27_WitnessDeleteAll ==
  /\ pc = "done" /\ BackupScopeOf(req) = BackupScopeOrphaned
  /\ ToRestore("bucket")
  /\ req.desired.resources["bucket"].spec = SpecOf("Delete", {"*"})
  /\ getAnnotationValue(rsp.desired["bucket"], ExternalNameAnnotation) = ""
  /\ CallsOf(rsp, "save") = {}

\* ---------------------------------------------------------------- C28
\* The resource has no spec, or a spec with neither policy field.
LacksPolicyFields(resource) ==
  \/ ~resource.spec.has
  \/ resource.spec.deletionPolicy = "" /\ resource.spec.managementPolicies = {}

\* C28: under backup scope orphaned, the external name of a resource without
\* the policy fields is neither restored nor captured.
C28_AbsentPolicyFieldsIneligible ==
  pc = "done" /\ BackupScopeOf(req) = BackupScopeOrphaned =>
    \A rn \in (DOMAIN req.desired.resources) \cup (DOMAIN req.observed.resources) :
      LacksPolicyFields(ScopeJudged(rn)) /\ (ToRestore(rn) \/ FreshExternalName(rn)) =>
        ExternalNameLeftAlone(rn)

\* A resource with an empty spec has the stored external name restored.
C28_EmptySpecRestored ==
  /\ pc = "done" /\ BackupScopeOf(req) = BackupScopeOrphaned
  /\ ToRestore("bucket")
  /\ req.desired.resources["bucket"].spec = SpecOf("", {})
  /\ ExternalNameRestored("bucket")

\* A resource with an empty spec has its observed external name captured.
C28_EmptySpecCaptured ==
  /\ pc = "done" /\ BackupScopeOf(req) = BackupScopeOrphaned
  /\ FreshExternalName("bucket")
  /\ ScopeJudged("bucket").spec = SpecOf("", {})
  /\ ExternalNameCaptured("bucket")

\* A resource without spec is left alone under backup scope orphaned.
C28_NoSpecIneligible ==
  pc = "done" /\ BackupScopeOf(req) = BackupScopeOrphaned =>
    \A rn \in (DOMAIN req.desired.resources) \cup (DOMAIN req.observed.resources) :
      ~ScopeJudged(rn).spec.has /\ (ToRestore(rn) \/ FreshExternalName(rn)) =>
        ExternalNameLeftAlone(rn)

\* ---------------------------------------------------------------- C30
\* The returned desired resource carries the tracking annotations of this
\* invocation for the fields of its batch entry.
Stamped(rn) ==
  /\ rsp.batch[rn].ExternalName # "" =>
       /\ getAnnotationValue(rsp.desired[rn], StoredExternalNameAnnotation)
            = rsp.batch[rn].ExternalName
       /\ getAnnotationValue(rsp.desired[rn], ExternalNameStoredAnnotation) = NowTimestamp
  /\ rsp.batch[rn].ResourceName # "" =>
       /\ getAnnotationValue(rsp.desired[rn], StoredResourceNameAnnotation)
            = rsp.batch[rn].ResourceName
       /\ getAnnotationValue(rsp.desired[rn], ResourceNameStoredAnnotation) = NowTimestamp

\* The invocation ended with a successful save.
SavedBatch ==
  /\ Reconciled /\ Succeeded
  /\ \E i \in CallsOf(rsp, "save") : ~rsp.calls[i].err

\* C30: after a successful save, every desired resource with an entry in the
\* saved batch carries, in the returned desired resources, the stored-value
\* annotation of each saved field with that value, and the matching timestamp
\* annotation with the timestamp of this invocation.
C30_CaptureTrackingStamp ==
  SavedBatch =>
    \A rn \in (DOMAIN rsp.batch) \cap (DOMAIN req.desired.resources) : Stamped(rn)

\* The observed resource carried the tracking annotations of an earlier capture
\* of another external name: the returned desired resource carries those, and
\* not the ones of this save.
C30_StaleTrackingKept ==
  /\ SavedBatch
  /\ "bucket" \in DOMAIN req.desired.resources /\ "bucket" \in DOMAIN rsp.batch
  /\ rsp.batch["bucket"].ExternalName = FirstName
  /\ getAnnotationValue(req.observed.resources["bucket"], StoredExternalNameAnnotation)
       \notin {"", FirstName}
  /\ getAnnotationValue(rsp.desired["bucket"], StoredExternalNameAnnotation)
       = getAnnotationValue(req.observed.resources["bucket"], StoredExternalNameAnnotation)
  /\ getAnnotationValue(rsp.desired["bucket"], ExternalNameStoredAnnotation) = OldTimestamp
  /\ RecordsIn(data)["bucket"].ExternalName = FirstName

\* When the observed resource carries no tracking annotation for a saved field,
\* the returned desired resource carries the stamp of this save for it.
C30_StampedWhenUntracked ==
  SavedBatch =>
    \A rn \in (DOMAIN rsp.batch) \cap (DOMAIN req.desired.resources) :
      /\ ( /\ rsp.batch[rn].ExternalName # ""
           /\ getAnnotationValue(req.observed.resources[rn], StoredExternalNameAnnotation) = "" )
         => /\ getAnnotationValue(rsp.desired[rn], StoredExternalNameAnnotation)
                 = rsp.batch[rn].ExternalName
            /\ getAnnotationValue(rsp.desired[rn], ExternalNameStoredAnnotation) = NowTimestamp
      /\ ( /\ rsp.batch[rn].ResourceName # ""
           /\ getAnnotationValue(req.observed.resources[rn], StoredResourceNameAnnotation) = "" )
         => /\ getAnnotationValue(rsp.desired[rn], StoredResourceNameAnnotation)
                 = rsp.batch[rn].ResourceName
            /\ getAnnotationValue(rsp.desired[rn], ResourceNameStoredAnnotation) = NowTimestamp

\* ---------------------------------------------------------------- C22
\* The value of a configuration annotation as C23 resolves it: the observed
\* composite's when non-empty, else the desired composite's when non-empty, else
\* the default.
Resolved(annotation, default) ==
  IF getAnnotationValue(req.observed.composite, annotation) # ""
    THEN getAnnotationValue(req.observed.composite, annotation)
  ELSE IF getAnnotationValue(req.desired.composite, annotation) # ""
    THEN getAnnotationValue(req.desired.composite, annotation)
  ELSE default

\* The request has a configuration error: a store type that is not supported,
\* or the DynamoDB store with credential material that does not parse or lacks
\* a required field.
ConfigurationError ==
  \/ Resolved(StoreTypeAnnotation, "awsdynamodb") \notin {"awsdynamodb", "mock", "k8sconfigmap"}
  \/ /\ Resolved(StoreTypeAnnotation, "awsdynamodb") = "awsdynamodb"
     /\ req.credentials \in MalformedCredentials \cup {IncompleteCredentials}

\* C22: an enabled invocation with a configuration error returns a fatal
\* result, issues no store call, leaves the store as it was and returns the
\* desired resources as received.
C22_ConfigErrorsAbort ==
  pc = "done" /\ EnableValues(req) \cap {"true", "yes", "1"} # {} /\ ConfigurationError =>
    /\ rsp.fatal # ""
    /\ rsp.calls = <<>>
    /\ data = pre
    /\ rsp.desired = req.desired.resources

\* Malformed credentials with the DynamoDB store by default, while there is an
\* external name to capture and the store holds records.
C22_Witness ==
  /\ pc = "done" /\ ConfigurationError
  /\ getAnnotationValue(req.observed.composite, StoreTypeAnnotation) = ""
  /\ getAnnotationValue(req.desired.composite, StoreTypeAnnotation) = ""
  /\ req.credentials.present /\ req.credentials.lines[1] = <<"section", "default">>
  /\ rsp.fatal = "failed to parse AWS credentials"
  /\ pre # EmptyMap

\* An unsupported store type on the observed composite, a supported one on the desired.
C22_WitnessUnsupported ==
  /\ pc = "done" /\ ConfigurationError
  /\ getAnnotationValue(req.observed.composite, StoreTypeAnnotation) = "etcd"
  /\ getAnnotationValue(req.desired.composite, StoreTypeAnnotation) = "mock"
  /\ rsp.fatal = "unsupported external store type"
  /\ rsp.message = <<"etcd">>

\* Without a configuration error and without a failing constructor the
\* invocation goes on to the store.
C22_NoErrorProceeds ==
  pc = "done" /\ ~ConfigurationError /\ fault = "none" /\ req.credentials # IncompleteCredentials =>
    rsp.fatal = "" /\ rsp.calls # <<>>

\* ---------------------------------------------------------------- C23
\* The store was asked for the bucket's external name to be kept.
BucketCaptured ==
  \E i \in CallsOf(rsp, "save") : "bucket" \in DOMAIN rsp.calls[i].arg

C23_WitnessDesiredOnly ==
  /\ pc = "done" /\ rsp.fatal = "" /\ rsp.calls # <<>>
  /\ getAnnotationValue(req.observed.composite, ClusterIDAnnotation) = ""
  /\ rsp.target[1] = "cluster-a"
  /\ getAnnotationValue(req.observed.composite, StoreTypeAnnotation) = ""
  /\ rsp.storeType = "mock"
  /\ getAnnotationValue(req.observed.composite, BackupScopeAnnotation) = ""
  /\ BucketCaptured

\* Neither composite carries them: the defaults.
C23_WitnessDefaults ==
  /\ pc = "done" /\ rsp.fatal = "" /\ rsp.calls # <<>>
  /\ \A a \in {ClusterIDAnnotation, StoreTypeAnnotation, BackupScopeAnnotation} :
       /\ getAnnotationValue(req.observed.composite, a) = ""
       /\ getAnnotationValue(req.desired.composite, a) = ""
  /\ rsp.target[1] = "default"
  /\ rsp.storeType = "awsdynamodb"
  /\ ~BucketCaptured

\* ---------------------------------------------------------------- C29
\* The last invocation wrote to the store: a save or a deleteResource call.
Wrote == CallsOf(rsp, "save") \cup CallsOf(rsp, "deleteResource") # {}

\* C29: in a run of repeated invocations for one composite, with the same
\* desired input, the observed names, external names and specs unchanged and
\* each observed member carrying the annotations of the desired member returned
\* last, no invocation from the second on issues a save or deleteResource call.
C29_WriteAvoidanceConverges ==
  pc = "done" /\ round >= 2 => ~Wrote

\* An invocation after the first writes only when it retires a member or an
\* observed member carries a tracking value other than its identity value.
StaleTracking(rn) ==
  \/ /\ getAnnotationValue(req.observed.resources[rn], StoredExternalNameAnnotation) # ""
     /\ getAnnotationValue(req.observed.resources[rn], StoredExternalNameAnnotation)
          # getAnnotationValue(req.observed.resources[rn], ExternalNameAnnotation)
  \/ /\ getAnnotationValue(req.observed.resources[rn], StoredResourceNameAnnotation) # ""
     /\ getAnnotationValue(req.observed.resources[rn], StoredResourceNameAnnotation)
          # getMetadataName(req.observed.resources[rn])

C29_ConvergesOtherwise ==
  /\ pc = "done" /\ round >= 2
  /\ \A rn \in DOMAIN req.observed.resources : ~StaleTracking(rn)
  /\ CallsOf(rsp, "deleteResource") = {}
  => ~Wrote

\* The third invocation saves again what the first and the second saved.
C29_SavesEveryRound ==
  /\ pc = "done" /\ round = MaxRounds
  /\ CallsOf(rsp, "save") # {} /\ CallsOf(first, "save") # {}
  /\ CallsOf(rsp, "deleteResource") = {}

\* The third invocation retires again the member the first one retired.
C29_RetiresEveryRound ==
  /\ pc = "done" /\ round = MaxRounds
  /\ CallsOf(rsp, "deleteResource") # {} /\ CallsOf(first, "deleteResource") # {}

\* A run that converges: the first invocation saves, the later ones do not write.
C29_Converged ==
  /\ pc = "done" /\ round = MaxRounds
  /\ CallsOf(first, "save") # {} /\ ~Wrote

\* ---------------------------------------------------------------- C31
\* C31: the merge of the observed annotations into a desired resource leaves
\* every annotation the desired resource already has with its value.
C31_MergeDoesNotOverwrite ==
  pc = "done" =>
    \A rn \in DOMAIN req.desired.resources :
      \A a \in AnnotationKeys :
        getAnnotationValue(req.desired.resources[rn], a) # "" =>
          getAnnotationValue(mergeObservedAnnotations(req, rn, req.desired.resources[rn]), a)
            = getAnnotationValue(req.desired.resources[rn], a)

\* An annotation the desired resource lacks is taken from the observed one.
C31_AbsentKeysCopied ==
  pc = "done" =>
    \A rn \in DOMAIN req.desired.resources \cap DOMAIN req.observed.resources :
      \A a \in AnnotationKeys :
        getAnnotationValue(req.desired.resources[rn], a) = "" =>
          getAnnotationValue(mergeObservedAnnotations(req, rn, req.desired.resources[rn]), a)
            = getAnnotationValue(req.observed.resources[rn], a)

\* An invocation that retires nothing returns the observed tracking value in
\* place of the one the desired resource came with.
C31_ReceivedValueOverwritten ==
  /\ Reconciled /\ Succeeded
  /\ CallsOf(rsp, "deleteResource") = {}
  /\ "bucket" \in DOMAIN req.desired.resources \cap DOMAIN req.observed.resources
  /\ getAnnotationValue(req.desired.resources["bucket"], StoredExternalNameAnnotation) = FirstName
  /\ getAnnotationValue(req.observed.resources["bucket"], StoredExternalNameAnnotation)
       \notin {"", FirstName}
  /\ getAnnotationValue(rsp.desired["bucket"], StoredExternalNameAnnotation)
       = getAnnotationValue(req.observed.resources["bucket"], StoredExternalNameAnnotation)

\* ---------------------------------------------------------------- C32
\* The tracking annotations of the engine: the stored, restored and deleted keys.
TrackingAnnotations ==
  { StoredExternalNameAnnotation, ExternalNameStoredAnnotation, ExternalNameDeletedAnnotation,
    ExternalNameRestoredAnnotation, StoredResourceNameAnnotation,
    ResourceNameStoredAnnotation, ResourceNameRestoredAnnotation }

\* C32: the merge adds to a desired resource only tracking annotations of the
\* observed resource; every other annotation, crossplane.io/external-name
\* included, is as it was on the desired resource.
C32_MergeCopiesTrackingOnly ==
  pc = "done" =>
    \A rn \in DOMAIN req.desired.resources :
      \A a \in AnnotationKeys \ TrackingAnnotations :
        getAnnotationValue(mergeObservedAnnotations(req, rn, req.desired.resources[rn]), a)
          = getAnnotationValue(req.desired.resources[rn], a)

\* The returned desired resource carries the observed external name although
\* the desired resource came without one and none was restored.
C32_ExternalNameCopied ==
  /\ Reconciled /\ Succeeded
  /\ "bucket" \in DOMAIN req.desired.resources \cap DOMAIN req.observed.resources
  /\ getAnnotationValue(req.desired.resources["bucket"], ExternalNameAnnotation) = ""
  /\ "bucket" \notin rsp.restoredExternalName
  /\ RecordsIn(pre) = EmptyMap
  /\ getAnnotationValue(rsp.desired["bucket"], ExternalNameAnnotation) = FirstName

\* The tracking annotations of the observed resource are in the merged one.
C32_TrackingCopied ==
  pc = "done" =>
    \A rn \in DOMAIN req.desired.resources \cap DOMAIN req.observed.resources :
      \A a \in TrackingAnnotations :
        getAnnotationValue(req.observed.resources[rn], a) # "" =>
          getAnnotationValue(mergeObservedAnnotations(req, rn, req.desired.resources[rn]), a)
            = getAnnotationValue(req.observed.resources[rn], a)

\* ---------------------------------------------------------------- C33
\* The load, save and purge calls of the last invocation that returned an error.
FailedStoreCalls ==
  { i \in 1..Len(rsp.calls) : rsp.calls[i].op \in {"load", "save", "purge"} /\ rsp.calls[i].err }

\* C33: a load, save or purge call that returns an error makes the invocation
\* fatal, and it is the last store call of the invocation: the operation is
\* not issued again.
C33_StoreErrorsAbort ==
  pc = "done" =>
    \A i \in FailedStoreCalls : rsp.fatal # "" /\ i = Len(rsp.calls)

\* It holds for load, for save and for the purge the purge annotation asks for.
C33_LoadSavePurgeRequestAbort ==
  pc = "done" =>
    \A i \in FailedStoreCalls :
      rsp.calls[i].op \in {"load", "save"} \/ shouldPurgeExternalStore(req) =>
        rsp.fatal # "" /\ i = Len(rsp.calls)

\* The purge of the composition that the retirements emptied fails, and the
\* invocation returns without a fatal result.
C33_PurgeOfEmptiedFailsSilently ==
  /\ Reconciled
  /\ \E i \in FailedStoreCalls : rsp.calls[i].op = "purge"
  /\ CallsOf(rsp, "deleteResource") # {}
  /\ rsp.fatal = ""
  /\ CompositionIn(data) /\ RecordsIn(data) = EmptyMap

\* A failing save is fatal.
C33_SaveFailureFatal ==
  /\ Reconciled
  /\ \E i \in FailedStoreCalls : rsp.calls[i].op = "save"
  /\ rsp.fatal # ""

\* ---------------------------------------------------------------- C34
\* The deleteResource call for a resource returned an error.
RetireFailed(rn) ==
  \E i \in CallsOf(rsp, "deleteResource") : rsp.calls[i].arg = rn /\ rsp.calls[i].err

\* C34: when deleteResource fails for a retiring resource the invocation is not
\* aborted, and the returned desired resource carries neither
\* stored-external-name nor external-name-stored.
C34_RetirementFailureLocal ==
  pc = "done" =>
    \A rn \in DOMAIN req.desired.resources :
      RetireFailed(rn) =>
        /\ rsp.fatal = ""
        /\ getAnnotationValue(rsp.desired[rn], StoredExternalNameAnnotation) = ""
        /\ getAnnotationValue(rsp.desired[rn], ExternalNameStoredAnnotation) = ""

\* The invocation is not aborted, and it stamps the deletion.
C34_NotAborted ==
  pc = "done" =>
    \A rn \in DOMAIN req.desired.resources :
      RetireFailed(rn) =>
        /\ rsp.fatal = ""
        /\ getAnnotationValue(rsp.desired[rn], ExternalNameDeletedAnnotation) = NowTimestamp

\* The annotations are gone when the observed copy has no tracking annotation
\* and no external name to capture, and the record that is still there is not
\* restored from.
C34_CleanedWhenObservedBare ==
  pc = "done" =>
    \A rn \in DOMAIN req.desired.resources :
      /\ RetireFailed(rn)
      /\ ObservedLacks(rn, StoredExternalNameAnnotation)
      /\ ObservedLacks(rn, ExternalNameAnnotation)
      /\ rn \notin rsp.restoredExternalName
      => /\ getAnnotationValue(rsp.desired[rn], StoredExternalNameAnnotation) = ""
         /\ getAnnotationValue(rsp.desired[rn], ExternalNameStoredAnnotation) = ""

\* The observed copy carries the tracking annotations and nothing is captured:
\* the returned desired resource has them again, with the old timestamp.
C34_TrackingBackFromObserved ==
  /\ pc = "done" /\ "bucket" \in DOMAIN req.desired.resources
  /\ RetireFailed("bucket") /\ rsp.fatal = ""
  /\ CallsOf(rsp, "save") = {}
  /\ getAnnotationValue(req.observed.resources["bucket"], StoredExternalNameAnnotation) = FirstName
  /\ getAnnotationValue(rsp.desired["bucket"], StoredExternalNameAnnotation) = FirstName
  /\ getAnnotationValue(rsp.desired["bucket"], ExternalNameStoredAnnotation) = OldTimestamp

\* The annotations were on the desired copy only, and the capture stamps anew.
C34_StampedAgain ==
  /\ pc = "done" /\ "bucket" \in DOMAIN req.desired.resources
  /\ RetireFailed("bucket") /\ rsp.fatal = ""
  /\ ObservedLacks("bucket", StoredExternalNameAnnotation)
  /\ getAnnotationValue(rsp.desired["bucket"], StoredExternalNameAnnotation) = FirstName
  /\ getAnnotationValue(rsp.desired["bucket"], ExternalNameStoredAnnotation) = NowTimestamp

\* ---------------------------------------------------------------- C35
\* The last invocation went through the retire phase: it loaded the record set
\* and was not stopped by the require-restore check of the loaded set.
ReachedRetire ==
  /\ Reconciled
  /\ \E i \in CallsOf(rsp, "load") : ~rsp.calls[i].err
  /\ rsp.fatal # "require-restore: no resource data found"

\* The stored-external-name annotation of the request's resource: the desired
\* copy's when non-empty, else the observed copy's.
TrackedExternalName(rn) ==
  IF getAnnotationValue(req.desired.resources[rn], StoredExternalNameAnnotation) # ""
    THEN getAnnotationValue(req.desired.resources[rn], StoredExternalNameAnnotation)
  ELSE IF rn \in DOMAIN req.observed.resources
    THEN getAnnotationValue(req.observed.resources[rn], StoredExternalNameAnnotation)
  ELSE ""

\* The spec the retire phase judges: the desired copy's, or the observed copy's
\* when the desired copy has none.
JudgedSpec(rn) ==
  IF ~req.desired.resources[rn].spec.has /\ rn \in DOMAIN req.observed.resources
    THEN req.observed.resources[rn].spec
    ELSE req.desired.resources[rn].spec

RetireCondition(rn) ==
  /\ TrackedExternalName(rn) # ""
  /\ JudgedSpec(rn).has
  /\ JudgedSpec(rn).deletionPolicy = "Delete"
  /\ JudgedSpec(rn).managementPolicies \cap {"*", "Delete"} # {}

\* C35: the retire phase issues deleteResource for a desired resource exactly
\* when a stored-external-name is found on the desired or else the observed
\* copy and the spec, the desired copy's or else the observed copy's, has
\* deletionPolicy Delete and "*" or "Delete" among its managementPolicies; it
\* issues it once.
C35_RetireCondition ==
  ReachedRetire =>
    \A rn \in DOMAIN req.desired.resources :
      Cardinality({ i \in CallsOf(rsp, "deleteResource") : rsp.calls[i].arg = rn })
        = IF RetireCondition(rn) THEN 1 ELSE 0

\* The annotation is on the observed copy only and the spec on the observed
\* copy only (the fallback tests of TestRunFunction).
C35_Witness ==
  /\ ReachedRetire /\ "bucket" \in DOMAIN req.desired.resources
  /\ getAnnotationValue(req.desired.resources["bucket"], StoredExternalNameAnnotation) = ""
  /\ ~req.desired.resources["bucket"].spec.has
  /\ JudgedSpec("bucket").managementPolicies = {"Observe", "Delete"}
  /\ RetireCondition("bucket")
  /\ \E i \in CallsOf(rsp, "deleteResource") : rsp.calls[i].arg = "bucket"

\* A tracked resource whose desired spec keeps it is not retired, whatever the
\* observed spec.
C35_WitnessNotRetired ==
  /\ ReachedRetire /\ "bucket" \in DOMAIN req.desired.resources
  /\ TrackedExternalName("bucket") # ""
  /\ req.desired.resources["bucket"].spec.deletionPolicy = "Delete"
  /\ req.desired.resources["bucket"].spec.managementPolicies = {"Create", "Update", "Observe"}
  /\ "bucket" \in DOMAIN req.observed.resources
  /\ req.observed.resources["bucket"].spec = DeleteAll
  /\ ~RetireCondition("bucket")
  /\ CallsOf(rsp, "deleteResource") = {}

\* No deleteResource is issued for a resource that is not a desired one.
C35_OnlyDesired ==
  pc = "done" =>
    \A i \in CallsOf(rsp, "deleteResource") : rsp.calls[i].arg \in DOMAIN req.desired.resources

\* ---------------------------------------------------------------- C36
\* The retire phase issued deleteResource for the resource.
RetireIssued(rn) ==
  \E i \in CallsOf(rsp, "deleteResource") : rsp.calls[i].arg = rn

\* The restore phase gave the resource the external name of its record.
RestoredByRecord(rn) ==
  /\ rn \in rsp.restoredExternalName
  /\ getAnnotationValue(rsp.desired[rn], ExternalNameRestoredAnnotation) = NowTimestamp

\* C36: a resource for which the retire phase issued deleteResource is not
\* given a restored external name in the same invocation, under either scope
\* and whether or not the call succeeded.
C36_RetirePrecedesRestore ==
  pc = "done" =>
    \A rn \in DOMAIN req.desired.resources :
      RetireIssued(rn) => ~RestoredByRecord(rn)

\* It holds when the deleteResource call succeeded.
C36_NotRestoredAfterDelete ==
  pc = "done" =>
    \A rn \in DOMAIN req.desired.resources :
      Retired(rn) => ~RestoredByRecord(rn)

\* The call failed, the record is still in the loaded set, and under scope all
\* the restore phase writes its external name into the desired resource.
C36_RestoredAfterFailedDelete ==
  /\ pc = "done" /\ rsp.fatal = ""
  /\ RetireFailed("bucket") /\ RestoredByRecord("bucket")
  /\ getAnnotationValue(req.observed.composite, BackupScopeAnnotation) = BackupScopeAll
  /\ getAnnotationValue(rsp.desired["bucket"], ExternalNameAnnotation)
       = RecordsIn(pre)["bucket"].ExternalName
  /\ getAnnotationValue(rsp.desired["bucket"], ExternalNameDeletedAnnotation) = NowTimestamp

\* The same under scope orphaned in require-restore mode.
C36_RestoredAfterFailedDeleteRestoreOnly ==
  /\ pc = "done" /\ rsp.fatal = ""
  /\ RetireFailed("bucket") /\ RestoredByRecord("bucket")
  /\ getAnnotationValue(req.observed.composite, BackupScopeAnnotation) = ""
  /\ getAnnotationValue(req.observed.composite, RequireRestoreAnnotation) = "true"

\* ---------------------------------------------------------------- C37
\* The last invocation ran in require-restore mode and was not asked to purge.
RestoreOnly ==
  /\ pc = "done"
  /\ shouldEnableExternalStore(req)
  /\ shouldRequireRestore(req)
  /\ ~shouldPurgeExternalStore(req)

\* C37: an invocation in require-restore mode issues no save, no
\* deleteResource and no purge, and the store holds after it what it held before.
C37_RequireRestoreNeverModifies ==
  RestoreOnly =>
    /\ \A i \in 1..Len(rsp.calls) : rsp.calls[i].op \notin {"save", "deleteResource", "purge"}
    /\ data = pre

\* The capture is skipped: there is no save, whatever was observed.
C37_NoSave ==
  RestoreOnly => CallsOf(rsp, "save") = {}

\* A tracked, delete-eligible resource is retired in require-restore mode: its
\* record is deleted, and the composition it was the last record of is purged.
C37_RecordRetired ==
  /\ RestoreOnly
  /\ "bucket" \in DOMAIN RecordsIn(pre) /\ Retired("bucket")
  /\ CallsOf(rsp, "purge") # {}
  /\ ~CompositionIn(data)

\* An observed identity value that has no record yet is left unsaved.
C37_CaptureSkipped ==
  /\ RestoreOnly /\ rsp.fatal = ""
  /\ "bucket" \in DOMAIN req.observed.resources
  /\ getMetadataName(req.observed.resources["bucket"]) # ""
  /\ getAnnotationValue(req.observed.resources["bucket"], StoredResourceNameAnnotation) = ""
  /\ data = pre

\* ---------------------------------------------------------------- C38
\* C38: after a successful invocation of a sequence that began with an empty
\* store and untracked resources, every returned desired resource that carries
\* stored-external-name = v has a record with externalName = v in the store.
C38_TrackingImpliesStored ==
  pc = "done" /\ rsp.fatal = "" =>
    \A rn \in DOMAIN rsp.desired :
      getAnnotationValue(rsp.desired[rn], StoredExternalNameAnnotation) # "" =>
        /\ rn \in DOMAIN RecordsIn(data)
        /\ RecordsIn(data)[rn].ExternalName
             = getAnnotationValue(rsp.desired[rn], StoredExternalNameAnnotation)

\* A later invocation returns a tracked resource, after an invocation that
\* wrote to the store.
C38_Witness ==
  /\ pc = "done" /\ rsp.fatal = "" /\ round = MaxInvocations
  /\ "bucket" \in DOMAIN rsp.desired
  /\ getAnnotationValue(rsp.desired["bucket"], StoredExternalNameAnnotation) = FirstName
  /\ CallsOf(rsp, "deleteResource") # {}
  /\ RecordsIn(data)["bucket"].ExternalName = FirstName

\* A rebuilt composite gets its external name from the record and is tracked.
C38_WitnessRestored ==
  /\ pc = "done" /\ rsp.fatal = "" /\ round > 1
  /\ "bucket" \in rsp.restoredExternalName
  /\ getAnnotationValue(rsp.desired["bucket"], StoredExternalNameAnnotation) = FirstName

\* A purge after a capture leaves no tracked resource in the response.
C38_WitnessPurged ==
  /\ pc = "done" /\ rsp.fatal = "" /\ round > 1
  /\ shouldPurgeExternalStore(req)
  /\ RecordsIn(pre) # EmptyMap /\ ~CompositionIn(data)

\* ---------------------------------------------------------------- C39
\* The backup-scope annotation of the last request has a value that is neither
\* "orphaned" nor "all".
UnrecognisedScope ==
  /\ pc = "done"
  /\ shouldEnableExternalStore(req) /\ ~shouldPurgeExternalStore(req)
  /\ Resolved(BackupScopeAnnotation, "orphaned") \notin {"orphaned", "all"}

\* The request with backup scope all in place of the scope it came with.
AsScopeAll(request) ==
  LET rescoped(composite) ==
        [composite EXCEPT !.annotations =
           [a \in XRAnnotationKeys |->
              IF a = BackupScopeAnnotation /\ composite.annotations[a] # "" THEN "all"
              ELSE composite.annotations[a]]]
  IN  [request EXCEPT !.desired.composite = rescoped(request.desired.composite),
                      !.observed.composite = rescoped(request.observed.composite)]

\* C39: with an unrecognised backup scope the invocation is not rejected and
\* does what it does under scope all: the same store calls, the same store
\* afterwards, the same desired resources; an observed resource that scope
\* orphaned excludes has its fresh external name saved.
C39_UnrecognisedScopeAsAll ==
  UnrecognisedScope =>
    /\ \E order \in OrdersOf(DOMAIN req.desired.resources) :
         LET same == RunFunction(AsScopeAll(req), pre, fault, NowTimestamp, order)
         IN  /\ rsp.fatal = same.fatal
             /\ rsp.calls = same.calls
             /\ rsp.desired = same.desired
             /\ data = same.data
    /\ rsp.fatal = "" /\ getAnnotationValue(req.observed.composite, RequireRestoreAnnotation) = "" =>
         \A rn \in DOMAIN req.observed.resources :
           FreshExternalName(rn) => ExternalNameCaptured(rn)

\* A delete-eligible bucket, which scope orphaned excludes, has its fresh
\* external name saved under the scope "everything".
C39_Witness ==
  /\ UnrecognisedScope /\ rsp.fatal = ""
  /\ "bucket" \in DOMAIN req.desired.resources
  /\ req.desired.resources["bucket"].spec = DeleteAll
  /\ FreshExternalName("bucket") /\ ExternalNameCaptured("bucket")

\* A bucket without spec has its external name restored from the record.
C39_WitnessRestored ==
  /\ UnrecognisedScope /\ rsp.fatal = ""
  /\ "bucket" \in DOMAIN req.desired.resources
  /\ ~ScopeJudged("bucket").spec.has
  /\ ToRestore("bucket") /\ ExternalNameRestored("bucket")

==============================================================================
